---- MODULE Spec2Model ----
(***************************************************************************)
(* Model of the quiz-solving session of solver.py: the deadline gate       *)
(* (solve_quiz_with_deadline), the navigate / detect / fetch / resolve /   *)
(* compute / submit loop (_solve_quiz_full) and the helpers it calls.      *)
(*                                                                         *)
(* Time is in milliseconds.  Page content is a sequence of tokens, each    *)
(* token standing for one whitespace-separated phrase of the page text;    *)
(* secondary-page text and audio transcripts are sequences of characters.  *)
(* An optional value (Python None or a value) is a set with at most one    *)
(* element: {} is None.  The renderer is assumed to start and to evaluate  *)
(* wait_for_timeout without raising.                                       *)
(***************************************************************************)
EXTENDS Integers, Sequences, FiniteSets, TLC

\* ------------------------------------------------------------------ bounds
NumUrls == 2          \* main-page URLs the submit endpoint can hand back
FastMs  == 1000       \* duration of a network operation that does not time out

\* ------------------------------------------------------- program constants
MAX_TOTAL_SECONDS   == 170
StartFloor          == 3
LoopFloor           == 6
NavIdleTimeoutMs    == 45000
NavLoadTimeoutMs    == 75000
SettleMs            == 300
ScrapeIdleTimeoutMs == 30000
ScrapeLoadTimeoutMs == 45000
ScrapeSettleMs      == 200
SecretSnippetLen    == 300

Urls     == 1..NumUrls
EmptyUrl == 0                       \* the empty string as a next-hop url
None     == {}
Some(v)  == {v}
The(s)   == CHOOSE v \in s : TRUE

Min(a, b) == IF a < b THEN a ELSE b
Max(a, b) == IF a > b THEN a ELSE b

\* ------------------------------------------------------------- characters
LowerLetters == {"a","b","c","d","e","f","g","h","i","j","k","l","m",
                 "n","o","p","q","r","s","t","u","v","w","x","y","z"}
UpperLetters == {"A","B","C","D","E","F","G","H","I","J","K","L","M",
                 "N","O","P","Q","R","S","T","U","V","W","X","Y","Z"}
Digits       == {"0","1","2","3","4","5","6","7","8","9"}
Whitespace   == {" ", "\n", "\t"}
CodeChars    == LowerLetters \cup UpperLetters \cup Digits \cup {"_", "-"}

\* re.I: case-insensitive comparison of the letters the patterns name
Lower(c) ==
    CASE c = "S" -> "s" [] c = "E" -> "e" [] c = "C" -> "c" [] c = "R" -> "r"
      [] c = "T" -> "t" [] c = "O" -> "o" [] c = "D" -> "d" [] OTHER -> c

\* str.strip()
RECURSIVE LStrip(_)
LStrip(s) == IF s # <<>> /\ Head(s) \in Whitespace THEN LStrip(Tail(s)) ELSE s
RECURSIVE RStrip(_)
RStrip(s) ==
    IF s # <<>> /\ s[Len(s)] \in Whitespace
    THEN RStrip(SubSeq(s, 1, Len(s) - 1)) ELSE s
Strip(s) == RStrip(LStrip(s))

\* s[:n]
Prefix(s, n) == SubSeq(s, 1, Min(Len(s), n))

\* truthiness of an optional string: not None and not empty
Truthy(opt) == opt # None /\ The(opt) # <<>>

\* ------------------------------------------- secret-code pattern (regex)
\* r"secret\s*code\s*[:\-]?\s*([A-Za-z0-9_-]+)" with re.I, solver.py:251
LitAt(t, i, lit) ==
    /\ i + Len(lit) - 1 <= Len(t)
    /\ \A k \in 1..Len(lit) : Lower(t[i + k - 1]) = lit[k]

RECURSIVE SkipSpace(_, _)
SkipSpace(t, i) ==
    IF i <= Len(t) /\ t[i] \in Whitespace THEN SkipSpace(t, i + 1) ELSE i

RECURSIVE RunEnd(_, _)
RunEnd(t, i) ==      \* index of the last character of the run of code chars at i
    IF i + 1 <= Len(t) /\ t[i + 1] \in CodeChars THEN RunEnd(t, i + 1) ELSE i

IsCodeAt(t, i) == i <= Len(t) /\ t[i] \in CodeChars

\* start of group 1 when the pattern matches at i, 0 when it does not
SecretGroupStart(t, i) ==
    IF ~LitAt(t, i, <<"s","e","c","r","e","t">>) THEN 0
    ELSE LET j1 == SkipSpace(t, i + 6) IN
         IF ~LitAt(t, j1, <<"c","o","d","e">>) THEN 0
         ELSE LET j2 == SkipSpace(t, j1 + 4)
                  j3 == SkipSpace(t, j2 + 1)
              IN IF j2 <= Len(t) /\ t[j2] \in {":", "-"} /\ IsCodeAt(t, j3) THEN j3
                 ELSE IF IsCodeAt(t, j2) THEN j2     \* the optional separator gives way
                 ELSE 0

SecretMatchAt(t) ==      \* re.search: leftmost position where the pattern matches
    IF \E i \in 1..Len(t) : SecretGroupStart(t, i) # 0
    THEN CHOOSE i \in 1..Len(t) :
            /\ SecretGroupStart(t, i) # 0
            /\ \A k \in 1..(i - 1) : SecretGroupStart(t, k) = 0
    ELSE 0

HasSecretPattern(t) == SecretMatchAt(t) # 0

SecretGroup(t) ==
    LET g == SecretGroupStart(t, SecretMatchAt(t)) IN SubSeq(t, g, RunEnd(t, g))

\* solver.py:247-254, the part of scrape_secondary_page after the page loaded;
\* read is the optional body text (None: page.evaluate raised)
ScrapeResultNoFallback(read) ==
    IF read = None THEN None
    ELSE IF HasSecretPattern(The(read)) THEN Some(SecretGroup(The(read)))
    ELSE None

ScrapeResult(read) ==
    IF read = None THEN None
    ELSE IF HasSecretPattern(The(read)) THEN Some(SecretGroup(The(read)))
    ELSE Some(Prefix(Strip(The(read)), SecretSnippetLen))

\* ------------------------------------------------------------ page text
\* Tokens of the main page's text.  Each stands for one phrase:
\*   "w"          a plain word                "nl"        a line break
\*   "absSubmit"  https://h/submit            "absAnswer" https://h/answer
\*   "relSubmit"  /submit-here                "relOther"  /secret-page
\*   "postBackTo" post back to                "scrape"    scrape
\*   "csvUrl" "pdfUrl" "jsonUrl" "mp3Url" "oggUrl"  https://h/f.<ext>
\*   "countRows"  how many rows               "sumOf"     sum of value
\*   "gt"         greater than 10             "gtBad"     greater than 10.5.
\*   "chart"      chart                       "page2"     page 2
AbsSubmitTokens   == {"absSubmit"}
AbsEndpointTokens == {"absSubmit", "absAnswer"}
RelSubmitTokens   == {"relSubmit"}
RelPathTokens     == {"relSubmit", "relOther"}
FileUrlTokens     == {"csvUrl", "pdfUrl", "jsonUrl", "mp3Url"}
AudioUrlTokens    == {"mp3Url", "oggUrl"}
AbsUrlTokens      == AbsEndpointTokens \cup FileUrlTokens \cup AudioUrlTokens
VerbTokens        == {"sumOf"}
CutoffTokens      == {"gt", "gtBad"}
\* tokens made only of letters, digits, "_", "-" and spaces
WordTokens        == {"w", "postBackTo", "scrape", "countRows", "sumOf", "gt",
                      "chart", "page2"}

\* (pre_text or "") + "\n" + (page_text or "")
Content(page_text, pre_text) == pre_text \o <<"nl">> \o page_text

\* re.search for a one-token pattern: index of the leftmost token in S, or 0
FirstIdx(seq, S) ==
    IF \E i \in 1..Len(seq) : seq[i] \in S
    THEN CHOOSE i \in 1..Len(seq) :
            seq[i] \in S /\ \A j \in 1..(i - 1) : seq[j] \notin S
    ELSE 0

\* \s+ between two phrases also crosses line breaks
RECURSIVE SkipNl(_, _)
SkipNl(seq, i) == IF i <= Len(seq) /\ seq[i] = "nl" THEN SkipNl(seq, i + 1) ELSE i

\* leftmost i with seq[i] = lead followed (after whitespace) by a token of S
FirstPair(seq, lead, S) ==
    LET ok(i) == /\ seq[i] = lead
                 /\ SkipNl(seq, i + 1) <= Len(seq)
                 /\ seq[SkipNl(seq, i + 1)] \in S
    IN IF \E i \in 1..Len(seq) : ok(i)
       THEN CHOOSE i \in 1..Len(seq) : ok(i) /\ \A j \in 1..(i - 1) : ~ok(j)
       ELSE 0

\* an absolute URL found in the text, and urljoin(current_url, relative path)
AbsUrl(tok)       == [base |-> 0, ref |-> tok]
urljoin(cur, tok) == [base |-> cur, ref |-> tok]

detect_submit_url_any_path(page_text, pre_text, current_url) ==
    LET content == Content(page_text, pre_text)
        m1 == FirstIdx(content, AbsSubmitTokens)
        m2 == FirstIdx(content, AbsEndpointTokens)
        m3 == FirstIdx(content, RelSubmitTokens)
        m4 == FirstPair(content, "postBackTo", RelPathTokens)
    IN IF m1 # 0 THEN Some(AbsUrl(content[m1]))
       ELSE IF m2 # 0 THEN Some(AbsUrl(content[m2]))
       ELSE IF m3 # 0 THEN Some(urljoin(current_url, content[m3]))
       ELSE IF m4 # 0 THEN Some(urljoin(current_url, content[SkipNl(content, m4 + 1)]))
       ELSE None

\* solver.py:211-225.  The fourth pattern asks for a path beginning /submit.
detect_submit_url(page_text, pre_text, current_url) ==
    LET content == Content(page_text, pre_text)
        m1 == FirstIdx(content, AbsSubmitTokens)
        m2 == FirstIdx(content, AbsEndpointTokens)
        m3 == FirstIdx(content, RelSubmitTokens)
        m4 == FirstPair(content, "postBackTo", RelSubmitTokens)
    IN IF m1 # 0 THEN Some(AbsUrl(content[m1]))
       ELSE IF m2 # 0 THEN Some(AbsUrl(content[m2]))
       ELSE IF m3 # 0 THEN Some(urljoin(current_url, content[m3]))
       ELSE IF m4 # 0 THEN Some(urljoin(current_url, content[SkipNl(content, m4 + 1)]))
       ELSE None

\* solver.py:227-230
detect_file_url(page_text, pre_text) ==
    LET content == Content(page_text, pre_text)
        m == FirstIdx(content, FileUrlTokens)
    IN IF m # 0 THEN Some(content[m]) ELSE None

\* file_url.rsplit(".", 1)[-1].lower(), solver.py:106
ExtOf(tok) ==
    CASE tok = "csvUrl" -> "csv" [] tok = "pdfUrl" -> "pdf"
      [] tok = "jsonUrl" -> "json" [] tok = "mp3Url" -> "mp3" [] OTHER -> "ogg"

\* solver.py:232-236: searches page_text only
detect_scrape_url(page_text, current_url) ==
    LET m == FirstPair(page_text, "scrape", RelPathTokens)
    IN IF m # 0 THEN Some(urljoin(current_url, page_text[SkipNl(page_text, m + 1)]))
       ELSE None

\* solver.py:256-259
detect_audio_url(page_text, pre_text) ==
    LET content == Content(page_text, pre_text)
        m == FirstIdx(content, AudioUrlTokens)
    IN IF m # 0 THEN Some(content[m]) ELSE None

\* -------------------------------------------------------- action resolver
NoSpec == [action |-> None, column |-> None, cutoff |-> None, page |-> None]

\* group 2 of the verb pattern, [A-Za-z0-9_ \-]+ : the column name and every
\* following phrase of the same line made of those characters
RECURSIVE Swallow(_, _)
Swallow(txt, i) ==
    IF i > Len(txt) THEN <<>>
    ELSE IF txt[i] \in WordTokens THEN <<txt[i]>> \o Swallow(txt, i + 1)
    ELSE IF txt[i] = "gtBad" THEN <<"gt">>          \* stops at the first "."
    ELSE IF txt[i] \in AbsUrlTokens THEN <<"https">> \* stops at the ":"
    ELSE <<>>

ColumnAt(txt, i) == <<"value">> \o Swallow(txt, i + 1)

\* utils.py:18-68.  raised: float() of the cutoff text raised ValueError
parse_question_text(page_text, pre_text) ==
    LET txt == Content(page_text, pre_text)
        iv  == FirstIdx(txt, VerbTokens)
        ig  == FirstIdx(txt, CutoffTokens)
        o2  == IF ig # 0 THEN [NoSpec EXCEPT !.cutoff = Some(10)] ELSE NoSpec
        o3  == IF FirstIdx(txt, {"page2"}) # 0 THEN [o2 EXCEPT !.page = Some(2)] ELSE o2
    IN IF FirstIdx(txt, {"countRows"}) # 0
       THEN [raised |-> FALSE, spec |-> [NoSpec EXCEPT !.action = Some("count")]]
       ELSE IF iv # 0
       THEN [raised |-> FALSE,
             spec |-> [NoSpec EXCEPT !.action = Some("sum"),
                                     !.column = Some(ColumnAt(txt, iv))]]
       ELSE IF ig # 0 /\ txt[ig] = "gtBad"
       THEN [raised |-> TRUE, spec |-> NoSpec]
       ELSE IF FirstIdx(txt, {"chart"}) # 0
       THEN [raised |-> FALSE, spec |-> [o2 EXCEPT !.action = Some("chart")]]
       ELSE [raised |-> FALSE, spec |-> [o3 EXCEPT !.action = Some("return_text")]]

\* solver.py:127
NeedsOracle(spec) == spec.action = Some("return_text") \/ spec.action = None

\* What ask_llm_for_action returns (llm_agent.py:21-89): None, or the parsed
\* JSON value: a dict (has: the keys it holds) or a non-empty list.
SpecFields == {"action", "column", "cutoff", "page"}
OracleNone == [kind |-> "none", has |-> {}, d |-> NoSpec]
OracleList == [kind |-> "list", has |-> {}, d |-> NoSpec]
OracleDict(has, d) == [kind |-> "dict", has |-> has, d |-> d]
OracleResults ==
    { OracleNone, OracleList,
      OracleDict({}, NoSpec),
      OracleDict({"action"}, [NoSpec EXCEPT !.action = Some("count")]),
      OracleDict({"action", "page"}, [NoSpec EXCEPT !.action = Some("pdf_read")]) }

\* `if llm_spec:` solver.py:134
OracleTruthy(o) == o.kind = "list" \/ (o.kind = "dict" /\ o.has # {})

\* question_spec.update(llm_spec), solver.py:135, for a dict
SpecUpdate(spec, o) ==
    [f \in SpecFields |-> IF f \in o.has THEN o.d[f] ELSE spec[f]]

\* ------------------------------------------------------- answer computer
\* Downloaded bytes are "empty" (b""), "ok" or "bad" (not parseable as the
\* format the extension names).  An answer is [src, val], val a sequence.
BytesTruthy(fb) == fb # None /\ The(fb) # "empty"

\* compute_answer_from_csv_bytes lets the parser's exception out (utils.py:73-81);
\* the PDF and JSON paths catch theirs (utils.py:102-112, 252-256)
FileRaises(ext, bytes) == ext = "csv" /\ bytes = "bad"

\* solver.py:145-156
FileAnswer(ext, bytes) ==
    IF ext \in {"csv", "pdf", "json"} THEN [src |-> "file", val |-> <<ext>>]
    ELSE [src |-> "file", val |-> <<"data-uri", ext>>]

\* solver.py:159-173
TextAnswer(spec) ==
    IF spec.action = Some("count") THEN [src |-> "text", val |-> <<"line-count">>]
    ELSE IF spec.action = Some("chart") THEN [src |-> "text", val |-> <<"chart">>]
    ELSE [src |-> "text", val |-> <<"snippet-800">>]

\* solver.py:176
FallbackAnswer == [src |-> "fallback", val |-> <<"snippet-600">>]

ComputeAnswerFileFirst(secret, transcript, fb, ext, spec) ==
    IF BytesTruthy(fb) /\ ext # ""
    THEN IF FileRaises(ext, The(fb)) THEN FallbackAnswer ELSE FileAnswer(ext, The(fb))
    ELSE IF Truthy(transcript) THEN [src |-> "audio", val |-> Strip(The(transcript))]
    ELSE IF Truthy(secret) THEN [src |-> "secret", val |-> The(secret)]
    ELSE TextAnswer(spec)

\* solver.py:138-176
ComputeAnswer(secret, transcript, fb, ext, spec) ==
    IF Truthy(secret) THEN [src |-> "secret", val |-> The(secret)]
    ELSE IF Truthy(transcript) THEN [src |-> "audio", val |-> Strip(The(transcript))]
    ELSE IF BytesTruthy(fb) /\ ext # ""
    THEN IF FileRaises(ext, The(fb)) THEN FallbackAnswer ELSE FileAnswer(ext, The(fb))
    ELSE TextAnswer(spec)

\* ------------------------------------------------------ submission client
\* What requests.post yields: a transport error, or an HTTP response with
\* resp.ok and a body that is JSON or not, holding a url or not.
NoResp == [kind |-> "none", ok |-> FALSE, json |-> FALSE, hasUrl |-> FALSE, url |-> EmptyUrl]
TransportError == [NoResp EXCEPT !.kind = "error"]
HttpResp(ok, json, hasUrl, url) ==
    [kind |-> "http", ok |-> ok, json |-> json, hasUrl |-> hasUrl, url |-> url]
Responses ==
    {TransportError}
    \cup {HttpResp(ok, FALSE, FALSE, EmptyUrl) : ok \in BOOLEAN}
    \cup {HttpResp(ok, TRUE, FALSE, EmptyUrl) : ok \in BOOLEAN}
    \cup {HttpResp(ok, TRUE, TRUE, u) : ok \in BOOLEAN, u \in Urls \cup {EmptyUrl}}

BodyUrl(r) == IF r.json /\ r.hasUrl THEN r.url ELSE EmptyUrl

NextUrlAnyStatus(r) == BodyUrl(r)

\* solver.py:183-195: next_url, EmptyUrl for None or ""
NextUrl(r) == IF r.ok THEN BodyUrl(r) ELSE EmptyUrl

\* ------------------------------------------------------------ the session
VARIABLES
    pc,               \* position of the session in solve_quiz_with_deadline / _solve_quiz_full
    now,              \* time.time(), ms since start_time
    deadline,         \* start_time + max_seconds, ms
    current_url,
    visited,
    inflight,         \* the page.goto call in progress
    page,             \* optional [body, pre]: page_text and pre_text of the loaded page
    submit_url,
    file_bytes,
    file_ext,
    scraped,          \* optional body text read from the secondary page
    secret_code,
    audio_transcript,
    question_spec,
    answer,           \* optional answer of the payload
    resp,             \* outcome of requests.post
    outcome,          \* how the session ended ("" while it runs)
    launch_remaining, \* deadline - time.time() at solver.py:37 (-1 before the launch)
    browser,          \* the renderer was started
    visits,           \* per URL: iterations that navigated to it as the main page
    navs,             \* per URL: page.goto attempts for it as the main page
    nav,              \* outcomes of this iteration's main-page goto attempts
    posts,            \* POSTs of this iteration
    ops,              \* artifact and oracle operations of this iteration
    arg,              \* optional argument of a helper called on its own
    ret,              \* optional value that call returned
    threads,          \* per request thread: the locals of its session (app.py:57-63)
    pyplot            \* matplotlib.pyplot's open figures, the last one current

timeVars  == <<now, deadline, launch_remaining, browser>>
iterVars  == <<page, submit_url, file_bytes, file_ext, scraped, secret_code,
               audio_transcript, question_spec, answer>>
histVars  == <<visits, navs, nav, posts, ops>>
callVars  == <<arg, ret>>
threadVars == <<threads, pyplot>>
vars == <<pc, now, deadline, current_url, visited, inflight, page, submit_url,
          file_bytes, file_ext, scraped, secret_code, audio_transcript,
          question_spec, answer, resp, outcome, launch_remaining, browser,
          visits, navs, nav, posts, ops, arg, ret, threads, pyplot>>

\* ------------------------------------------------------------------ inputs
InitialUrl == 1
\* remaining budget when solve_quiz_with_deadline is entered
LaunchRemaining ==
    { StartFloor * 1000, StartFloor * 1000 + 1, LoopFloor * 1000,
      (LoopFloor + 1) * 1000, (LoopFloor + 1) * 1000 + 500,
      (LoopFloor + 1) * 1000 + FastMs, MAX_TOTAL_SECONDS * 1000 }

Page(body, pre) == [body |-> body, pre |-> pre]
Pages ==
    { Page(<<>>, <<>>),
      Page(<<"w", "absSubmit">>, <<>>),
      Page(<<"scrape", "relOther", "csvUrl", "oggUrl">>, <<>>),
      Page(<<"postBackTo", "relOther", "w">>, <<>>),
      Page(<<"relSubmit", "csvUrl", "sumOf", "gt">>, <<>>),
      Page(<<"scrape", "relOther">>, <<"absAnswer">>),
      Page(<<"absSubmit", "scrape", "relOther", "mp3Url", "countRows">>, <<>>),
      Page(<<"absSubmit", "oggUrl", "pdfUrl", "page2">>, <<>>),
      Page(<<"absAnswer", "w", "gtBad">>, <<>>),
      Page(<<"absSubmit", "countRows">>, <<>>),
      Page(<<"absSubmit", "gt", "chart">>, <<>>) }

SecretPageText ==
    <<"S","e","c","r","e","t"," ","C","o","d","e",":"," ","A","B","1","2">>
LongText == [i \in 1..(SecretSnippetLen + 1) |-> "x"]
SecondaryReads ==
    { None, Some(<<>>), Some(<<" ", "\n">>), Some(SecretPageText),
      Some(<<" ", "h", "i", " ">>), Some(LongText) }

Transcripts == { None, Some(<<>>), Some(<<" ", "o", "k", "\n">>) }

Downloads == { None, Some("empty"), Some("ok"), Some("bad") }

\* ------------------------------------------------------ code of the loop
MainUrl(u) == [base |-> u, ref |-> "main"]
NoGoto == [url |-> MainUrl(EmptyUrl), wait_until |-> "", timeout |-> 0]
\* solver.py:65, 68, 240, 243
MainGotoIdle(u)   == [url |-> MainUrl(u), wait_until |-> "networkidle", timeout |-> NavIdleTimeoutMs]
MainGotoLoad(u)   == [url |-> MainUrl(u), wait_until |-> "load", timeout |-> NavLoadTimeoutMs]
ScrapeGotoIdle(u) == [url |-> u, wait_until |-> "networkidle", timeout |-> ScrapeIdleTimeoutMs]
ScrapeGotoLoad(u) == [url |-> u, wait_until |-> "load", timeout |-> ScrapeLoadTimeoutMs]

\* solver.py:38
CanStartNoFloor(remaining) == remaining > 0
CanStart(remaining) == remaining > StartFloor * 1000

\* solver.py:47: max(0, int(deadline - time.time()))
time_left_rounded_up(dl, t) == Max(0, (dl - t + 999) \div 1000)
time_left(dl, t) == Max(0, (dl - t) \div 1000)

\* solver.py:57
LoopCondLoose(url, dl, t) == url # EmptyUrl /\ time_left(dl, t) >= LoopFloor
LoopCond(url, dl, t) == url # EmptyUrl /\ time_left(dl, t) > LoopFloor

\* solver.py:61
VisitForgets(vis, url) == vis
Visit(vis, url) == vis \cup {url}

\* solver.py:66-74: where the first goto's exception leads
AfterGoto1AlwaysRetry(kind) == "Goto2"
AfterGoto1Failure(kind) == IF kind = "timeout" THEN "Goto2" ELSE "Done"

\* solver.py:92-94
AfterDetectGoesOn(submit) == "File"
AfterDetect(submit) == IF submit = None THEN "Done" ELSE "File"

\* solver.py:196-205: where the session goes after the POST
AfterPostAlwaysLoops(r) == IF r.kind = "error" THEN "Done" ELSE "LoopTop"
AfterPost(r) ==
    IF r.kind = "error" THEN "Done"
    ELSE IF NextUrl(r) # EmptyUrl THEN "LoopTop" ELSE "Done"

\* solver.py:57-61, 73-74, 93-94, 198-205: `break` and a false loop condition
\* end the session
TerminateStaysInLoop(o) == pc' = "LoopTop" /\ outcome' = o
Terminate(o) == pc' = "Done" /\ outcome' = o

\* the session before solve_quiz_with_deadline is entered
SessionInit ==
    /\ now = 0
    /\ deadline = MAX_TOTAL_SECONDS * 1000
    /\ current_url = InitialUrl
    /\ visited = {}
    /\ inflight = NoGoto
    /\ page = None
    /\ submit_url = None
    /\ file_bytes = None
    /\ file_ext = ""
    /\ scraped = None
    /\ secret_code = None
    /\ audio_transcript = None
    /\ question_spec = NoSpec
    /\ answer = None
    /\ resp = NoResp
    /\ outcome = ""
    /\ launch_remaining = -1
    /\ browser = FALSE
    /\ visits = [u \in Urls |-> 0]
    /\ navs = [u \in Urls |-> 0]
    /\ nav = [first |-> "none", second |-> "none"]
    /\ posts = 0
    /\ ops = {}

\* the two request threads of the concurrent runs
Sessions == {"a", "b"}

\* a thread before app.py:58 creates it
NoThread ==
    [ pc |-> "Idle", start_time |-> 0, deadline |-> 0, current_url |-> EmptyUrl,
      visited |-> {}, chart |-> FALSE, answer |-> {}, outcome |-> "",
      trace |-> <<>>, tops |-> <<>>, resps |-> <<>> ]

NoThreads == threads = [s \in Sessions |-> NoThread] /\ pyplot = <<>>

Init ==
    /\ pc = "Idle"
    /\ SessionInit
    /\ arg = None
    /\ ret = None
    /\ NoThreads

\* solver.py:35-40: the thread reaches the entry check with some budget left
Launch ==
    /\ pc = "Idle"
    /\ \E rem \in LaunchRemaining :
        /\ now' = deadline - rem
        /\ launch_remaining' = rem
        /\ IF CanStart(rem)
           THEN pc' = "Starting" /\ outcome' = outcome
           ELSE Terminate("NotStarted")
    /\ UNCHANGED <<deadline, browser, current_url, visited, inflight, resp>>
    /\ UNCHANGED iterVars /\ UNCHANGED histVars
    /\ UNCHANGED <<callVars, threadVars>>

\* solver.py:42-55: asyncio.run, start of the renderer
StartRenderer ==
    /\ pc = "Starting"
    /\ browser' = TRUE
    /\ now' = now + FastMs
    /\ pc' = "LoopTop"
    /\ UNCHANGED <<deadline, launch_remaining, current_url, visited, inflight, resp, outcome>>
    /\ UNCHANGED iterVars /\ UNCHANGED histVars
    /\ UNCHANGED <<callVars, threadVars>>

\* solver.py:57-65: loop condition, cycle guard, start of the first goto
LoopTop ==
    /\ pc = "LoopTop"
    /\ IF ~LoopCond(current_url, deadline, now)
       THEN /\ Terminate("TimeExhausted")
            /\ UNCHANGED <<visited, inflight, resp>>
            /\ UNCHANGED iterVars /\ UNCHANGED histVars
       ELSE IF current_url \in visited
       THEN /\ Terminate("CycleDetected")
            /\ UNCHANGED <<visited, inflight, resp>>
            /\ UNCHANGED iterVars /\ UNCHANGED histVars
       ELSE /\ visited' = Visit(visited, current_url)
            /\ pc' = "Goto1"
            /\ inflight' = MainGotoIdle(current_url)
            /\ visits' = [visits EXCEPT ![current_url] = @ + 1]
            /\ navs' = [navs EXCEPT ![current_url] = @ + 1]
            /\ nav' = [first |-> "none", second |-> "none"]
            /\ posts' = 0
            /\ ops' = {}
            /\ page' = None /\ submit_url' = None /\ file_bytes' = None
            /\ file_ext' = "" /\ scraped' = None /\ secret_code' = None
            /\ audio_transcript' = None /\ question_spec' = NoSpec
            /\ answer' = None /\ resp' = NoResp
            /\ outcome' = outcome
    /\ UNCHANGED <<current_url>> /\ UNCHANGED timeVars
    /\ UNCHANGED <<callVars, threadVars>>

\* the page the server serves is read at solver.py:76-86
Loaded(pg) ==
    /\ page' = Some(pg)
    /\ pc' = "Detect"
    /\ inflight' = NoGoto
    /\ UNCHANGED <<submit_url, file_bytes, file_ext, scraped, secret_code,
                   audio_transcript, question_spec, answer>>

\* solver.py:65: the first goto returns
Goto1Ok ==
    /\ pc = "Goto1"
    /\ \E pg \in Pages : Loaded(pg)
    /\ now' = now + FastMs
    /\ nav' = [nav EXCEPT !.first = "ok"]
    /\ UNCHANGED <<deadline, launch_remaining, browser, current_url, visited,
                   resp, outcome, visits, navs, posts, ops>>
    /\ UNCHANGED <<callVars, threadVars>>

\* solver.py:66-74: the first goto raises
Goto1Fails ==
    /\ pc = "Goto1"
    /\ \E kind \in {"timeout", "error"} :
        /\ now' = now + (IF kind = "timeout" THEN inflight.timeout ELSE FastMs)
        /\ nav' = [nav EXCEPT !.first = kind]
        /\ IF AfterGoto1Failure(kind) = "Goto2"
           THEN /\ pc' = "Goto2"
                /\ inflight' = MainGotoLoad(current_url)
                /\ navs' = [navs EXCEPT ![current_url] = @ + 1]
                /\ outcome' = outcome
           ELSE /\ Terminate("NavigationFailed")
                /\ inflight' = NoGoto
                /\ navs' = navs
    /\ UNCHANGED <<deadline, launch_remaining, browser, current_url, visited,
                   resp, visits, posts, ops>>
    /\ UNCHANGED iterVars
    /\ UNCHANGED <<callVars, threadVars>>

\* solver.py:68: the retry returns
Goto2Ok ==
    /\ pc = "Goto2"
    /\ \E pg \in Pages : Loaded(pg)
    /\ now' = now + FastMs
    /\ nav' = [nav EXCEPT !.second = "ok"]
    /\ UNCHANGED <<deadline, launch_remaining, browser, current_url, visited,
                   resp, outcome, visits, navs, posts, ops>>
    /\ UNCHANGED <<callVars, threadVars>>

\* solver.py:69-71: the retry raises
Goto2Fails ==
    /\ pc = "Goto2"
    /\ \E kind \in {"timeout", "error"} :
        /\ now' = now + (IF kind = "timeout" THEN inflight.timeout ELSE FastMs)
        /\ nav' = [nav EXCEPT !.second = kind]
    /\ Terminate("NavigationFailed")
    /\ inflight' = NoGoto
    /\ UNCHANGED <<deadline, launch_remaining, browser, current_url, visited,
                   resp, visits, navs, posts, ops>>
    /\ UNCHANGED iterVars
    /\ UNCHANGED <<callVars, threadVars>>

\* solver.py:76-95: settle, read the text, detect the submit URL
Detect ==
    /\ pc = "Detect"
    /\ now' = now + SettleMs
    /\ LET pg == The(page)
           found == detect_submit_url(pg.body, pg.pre, current_url)
       IN /\ submit_url' = found
          /\ IF AfterDetect(found) = "Done"
             THEN Terminate("SubmitUrlNotFound")
             ELSE pc' = "File" /\ outcome' = outcome
    /\ UNCHANGED <<deadline, launch_remaining, browser, current_url, visited,
                   inflight, resp, page, file_bytes, file_ext, scraped,
                   secret_code, audio_transcript, question_spec, answer>>
    /\ UNCHANGED histVars
    /\ UNCHANGED <<callVars, threadVars>>

\* solver.py:97-109: download of the data file
FetchFile ==
    /\ pc = "File"
    /\ LET pg == The(page)
           file_url == detect_file_url(pg.body, pg.pre)
       IN IF file_url = None
          THEN UNCHANGED <<now, file_bytes, file_ext, ops>>
          ELSE /\ now' = now + FastMs
               /\ ops' = ops \cup {"download"}
               /\ \E got \in Downloads :     \* None: not r.ok, or requests raised
                    /\ file_bytes' = got
                    /\ file_ext' = IF got = None THEN "" ELSE ExtOf(The(file_url))
    /\ pc' = "Scrape"
    /\ UNCHANGED <<deadline, launch_remaining, browser, current_url, visited,
                   inflight, resp, outcome, page, submit_url, scraped,
                   secret_code, audio_transcript, question_spec, answer,
                   visits, navs, nav, posts>>
    /\ UNCHANGED <<callVars, threadVars>>

\* solver.py:111-116 and 240: the scrape instruction starts a goto of the same page object
StartScrape ==
    /\ pc = "Scrape"
    /\ LET scrape_url == detect_scrape_url(The(page).body, current_url)
       IN IF scrape_url = None
          THEN pc' = "Audio" /\ UNCHANGED <<inflight, ops>>
          ELSE /\ pc' = "ScrapeGoto1"
               /\ inflight' = ScrapeGotoIdle(The(scrape_url))
               /\ ops' = ops \cup {"scrape"}
    /\ UNCHANGED <<current_url, visited, resp, outcome, visits, navs, nav, posts>>
    /\ UNCHANGED timeVars /\ UNCHANGED iterVars
    /\ UNCHANGED <<callVars, threadVars>>

\* solver.py:246-254: the secondary page loaded
ScrapeLoaded(read) ==
    /\ scraped' = read
    /\ secret_code' = ScrapeResult(read)
    /\ now' = now + FastMs + ScrapeSettleMs
    /\ pc' = "Audio"
    /\ inflight' = NoGoto
    /\ UNCHANGED <<deadline, launch_remaining, browser, current_url, visited,
                   resp, outcome, page, submit_url, file_bytes, file_ext,
                   audio_transcript, question_spec, answer>>
    /\ UNCHANGED histVars
    /\ UNCHANGED <<callVars, threadVars>>

ScrapeGoto1Ok == pc = "ScrapeGoto1" /\ \E read \in SecondaryReads : ScrapeLoaded(read)

\* solver.py:241-243: any exception of the first goto (here its timeout)
\* starts the second
ScrapeGoto1Fails ==
    /\ pc = "ScrapeGoto1"
    /\ now' = now + inflight.timeout
    /\ pc' = "ScrapeGoto2"
    /\ inflight' = ScrapeGotoLoad(inflight.url)
    /\ UNCHANGED <<deadline, launch_remaining, browser, current_url, visited,
                   resp, outcome>>
    /\ UNCHANGED iterVars /\ UNCHANGED histVars
    /\ UNCHANGED <<callVars, threadVars>>

ScrapeGoto2Ok == pc = "ScrapeGoto2" /\ \E read \in SecondaryReads : ScrapeLoaded(read)

\* solver.py:244-245
ScrapeGoto2Fails ==
    /\ pc = "ScrapeGoto2"
    /\ now' = now + inflight.timeout
    /\ pc' = "Audio"
    /\ inflight' = NoGoto
    /\ UNCHANGED <<deadline, launch_remaining, browser, current_url, visited,
                   resp, outcome>>
    /\ UNCHANGED iterVars /\ UNCHANGED histVars
    /\ UNCHANGED <<callVars, threadVars>>

\* solver.py:118-123: audio download and transcription
FetchAudio ==
    /\ pc = "Audio"
    /\ LET pg == The(page)
           audio_url == detect_audio_url(pg.body, pg.pre)
       IN IF audio_url = None
          THEN UNCHANGED <<now, audio_transcript, ops>>
          ELSE /\ now' = now + FastMs
               /\ ops' = ops \cup {"audio"}
               /\ \E t \in Transcripts : audio_transcript' = t
    /\ pc' = "Resolve"
    /\ UNCHANGED <<deadline, launch_remaining, browser, current_url, visited,
                   inflight, resp, outcome, page, submit_url, file_bytes,
                   file_ext, scraped, secret_code, question_spec, answer,
                   visits, navs, nav, posts>>
    /\ UNCHANGED <<callVars, threadVars>>

\* solver.py:125-135 for a parse result and the value the oracle would return:
\* raised (an exception left the loop), consulted (ask_llm_for_action was
\* called) and the question_spec in force afterwards
ResolveStep(parsed, o) ==
    IF parsed.raised
    THEN [raised |-> TRUE, consulted |-> FALSE, spec |-> NoSpec]
    ELSE IF ~NeedsOracle(parsed.spec)
    THEN [raised |-> FALSE, consulted |-> FALSE, spec |-> parsed.spec]
    ELSE IF ~OracleTruthy(o)
    THEN [raised |-> FALSE, consulted |-> TRUE, spec |-> parsed.spec]
    ELSE IF o.kind = "dict"
    THEN [raised |-> FALSE, consulted |-> TRUE, spec |-> SpecUpdate(parsed.spec, o)]
    ELSE [raised |-> TRUE, consulted |-> TRUE, spec |-> parsed.spec]  \* dict.update raises

\* solver.py:125-135: heuristic parse, then the oracle when it is inconclusive.
\* An exception here is not caught in the loop: it ends _solve_quiz_full and
\* is logged by solve_quiz_with_deadline (solver.py:43-44).
Resolve ==
    /\ pc = "Resolve"
    /\ \E o \in OracleResults :
        LET pg == The(page)
            r  == ResolveStep(parse_question_text(pg.body, pg.pre), o)
        IN /\ question_spec' = r.spec
           /\ now' = IF r.consulted THEN now + FastMs ELSE now
           /\ ops' = IF r.consulted THEN ops \cup {"oracle"} ELSE ops
           /\ IF r.raised
              THEN Terminate("SolverError")
              ELSE pc' = "Compute" /\ outcome' = outcome
    /\ UNCHANGED <<deadline, launch_remaining, browser, current_url, visited,
                   inflight, resp, page, submit_url, file_bytes, file_ext,
                   scraped, secret_code, audio_transcript, answer,
                   visits, navs, nav, posts>>
    /\ UNCHANGED <<callVars, threadVars>>

\* solver.py:137-180: the answer and the payload
Compute ==
    /\ pc = "Compute"
    /\ answer' = Some(ComputeAnswer(secret_code, audio_transcript, file_bytes,
                                    file_ext, question_spec))
    /\ pc' = "Post"
    /\ UNCHANGED <<current_url, visited, inflight, resp, outcome, page,
                   submit_url, file_bytes, file_ext, scraped, secret_code,
                   audio_transcript, question_spec>>
    /\ UNCHANGED timeVars /\ UNCHANGED histVars
    /\ UNCHANGED <<callVars, threadVars>>

\* solver.py:183-205: the POST and what follows it
Post ==
    /\ pc = "Post"
    /\ \E r \in Responses :
        /\ resp' = r
        /\ IF AfterPost(r) = "LoopTop"
           THEN /\ current_url' = NextUrl(r)
                /\ pc' = "LoopTop" /\ outcome' = outcome
           ELSE /\ current_url' = current_url
                /\ Terminate(IF r.kind = "error" THEN "SubmissionFailed" ELSE "Completed")
    /\ posts' = posts + 1
    /\ now' = now + FastMs
    /\ UNCHANGED <<deadline, launch_remaining, browser, visited, inflight,
                   visits, navs, nav, ops>>
    /\ UNCHANGED iterVars
    /\ UNCHANGED <<callVars, threadVars>>

Next ==
    \/ Launch
    \/ StartRenderer
    \/ LoopTop
    \/ Goto1Ok
    \/ Goto1Fails
    \/ Goto2Ok
    \/ Goto2Fails
    \/ Detect
    \/ FetchFile
    \/ StartScrape
    \/ ScrapeGoto1Ok
    \/ ScrapeGoto1Fails
    \/ ScrapeGoto2Ok
    \/ ScrapeGoto2Fails
    \/ FetchAudio
    \/ Resolve
    \/ Compute
    \/ Post

Spec == Init /\ [][Next]_vars

TypeOK ==
    /\ pc \in {"Idle", "Starting", "LoopTop", "Goto1", "Goto2", "Detect", "File",
               "Scrape", "ScrapeGoto1", "ScrapeGoto2", "Audio", "Resolve",
               "Compute", "Post", "Done"}
    /\ outcome \in {"", "NotStarted", "TimeExhausted", "CycleDetected",
                    "NavigationFailed", "SubmitUrlNotFound", "SolverError",
                    "SubmissionFailed", "Completed"}
    /\ (pc = "Done") = (outcome # "")
    /\ visited \subseteq Urls
    /\ current_url \in Urls

\* ------------------------------------------------------------ properties
RemainingMs == deadline - now
NoNavNoPost ==
    /\ \A u \in Urls : navs[u] = 0 /\ visits[u] = 0
    /\ posts = 0 /\ ops = {} /\ inflight = NoGoto /\ resp.kind = "none"

\* C1, as claimed: no URL is navigated to as the main page in more than one
\* iteration, and a session whose next current_url is already in visited ends
\* with CycleDetected before any navigation, download or POST for it.
C1_CycleGuard_AsClaimed ==
    /\ [](\A u \in Urls : visits[u] <= 1)
    /\ [][(pc = "LoopTop" /\ current_url \in visited)
            => /\ pc' = "Done" /\ outcome' = "CycleDetected"
               /\ UNCHANGED <<visited, inflight, visits, navs, posts, ops, resp>>]_vars

\* C1, amended: no URL is navigated to as the main page in more than one
\* iteration, and a session whose next current_url is already in visited ends
\* before any navigation, download or POST for it: with CycleDetected when at
\* least 7 s of budget remain, with TimeExhausted otherwise (the loop condition
\* is evaluated before the cycle guard).
C1_CycleGuard ==
    /\ [](\A u \in Urls : visits[u] <= 1)
    /\ [][(pc = "LoopTop" /\ current_url \in visited)
            => /\ pc' = "Done"
               /\ outcome' = IF RemainingMs >= (LoopFloor + 1) * 1000
                             THEN "CycleDetected" ELSE "TimeExhausted"
               /\ UNCHANGED <<visited, inflight, visits, navs, posts, ops, resp>>]_vars

C1_Witness ==
    /\ outcome = "CycleDetected"
    /\ current_url \in visited /\ visits[current_url] = 1
    /\ resp.kind = "http" /\ resp.url = current_url

\* C2, as claimed: no navigation (first attempt, retry or secondary page)
\* begins with a remaining budget of 6 s or less.
C2_BudgetBeforeNavigation_AsClaimed ==
    pc \in {"Goto1", "Goto2", "ScrapeGoto1", "ScrapeGoto2"}
        => RemainingMs > LoopFloor * 1000

\* C2, amended: the first navigation attempt of an iteration is started by the
\* step that checked the remaining budget, and it never begins with a
\* remaining budget of 6 s or less.
C2_BudgetBeforeNavigation ==
    /\ [](pc = "Goto1" => RemainingMs > LoopFloor * 1000)
    /\ [][pc' = "Goto1"
            => /\ pc = "LoopTop"
               /\ RemainingMs >= (LoopFloor + 1) * 1000
               /\ now' = now]_vars

C2_Witness ==
    pc = "Goto1" /\ RemainingMs = (LoopFloor + 1) * 1000

\* C3: a loaded page without a submit directive ends the session with
\* SubmitUrlNotFound, with no POST, download, scrape, audio fetch or oracle call.
C3_NoSubmitDirective ==
    ( /\ page # None
      /\ pc # "Detect"
      /\ FirstIdx(Content(The(page).body, The(page).pre),
                  {"absSubmit", "absAnswer", "relSubmit"}) = 0 )
    => /\ pc = "Done" /\ outcome = "SubmitUrlNotFound"
       /\ posts = 0 /\ ops = {} /\ resp.kind = "none"
       /\ file_bytes = None /\ scraped = None /\ audio_transcript = None
       /\ answer = None /\ inflight = NoGoto

C3_Witness ==
    /\ outcome = "SubmitUrlNotFound"
    /\ The(page).body = <<"scrape", "relOther", "csvUrl", "oggUrl">>

\* C4: an iteration in which a submit URL was detected ends with exactly one
\* POST, whatever happens in artifact fetching, action resolution and answer
\* computation.
C4_ExactlyOnePost ==
    /\ posts <= 1
    /\ (submit_url # None /\ pc \in {"LoopTop", "Done"}) => posts = 1

\* C5, as claimed: after a non-2xx response whose body is JSON with a url the
\* session continues to that URL.
C5_NonSuccessBody_AsClaimed ==
    (resp.kind = "http" /\ ~resp.ok /\ resp.json /\ resp.hasUrl /\ resp.url # EmptyUrl)
        => (pc = "LoopTop" /\ current_url = resp.url)

\* C5, amended: after a non-2xx response the body is not inspected: the session
\* ends as Completed on the page it was on, also when the body names a url.
C5_NonSuccessBody ==
    (resp.kind = "http" /\ ~resp.ok)
        => /\ pc = "Done" /\ outcome = "Completed"
           /\ current_url \in visited /\ posts = 1

C5_Witness ==
    /\ resp.kind = "http" /\ ~resp.ok /\ resp.json /\ resp.hasUrl
    /\ resp.url \in Urls \ visited
    /\ outcome = "Completed"

\* C6: a transport failure of the POST ends the session (SubmissionFailed); a
\* 2xx response whose JSON holds a non-empty url makes it current_url and
\* returns to the top of the loop; a 2xx response that is not JSON or has no
\* or an empty url ends the session as Completed; an ended session takes no
\* further step.
C6_SubmissionOutcome ==
    /\ [][pc = "Post"
            => /\ posts' = posts + 1
               /\ resp'.kind \in {"error", "http"}
               /\ resp'.kind = "error"
                    => /\ pc' = "Done" /\ outcome' = "SubmissionFailed"
                       /\ current_url' = current_url
               /\ (resp'.kind = "http" /\ resp'.ok /\ resp'.json /\ resp'.hasUrl
                        /\ resp'.url # EmptyUrl)
                    => pc' = "LoopTop" /\ outcome' = "" /\ current_url' = resp'.url
               /\ (resp'.kind = "http" /\ resp'.ok
                        /\ ~(resp'.json /\ resp'.hasUrl /\ resp'.url # EmptyUrl))
                    => pc' = "Done" /\ outcome' = "Completed"]_vars
    /\ [](outcome = "SubmissionFailed" => resp.kind = "error" /\ posts = 1)
    /\ [][pc # "Done"]_vars

C6_Witness ==
    /\ pc = "LoopTop" /\ resp.kind = "http" /\ resp.ok
    /\ current_url = resp.url /\ current_url \notin visited

\* C7: the main page is first navigated with networkidle and 45 s; only a
\* timeout of that attempt is followed by one retry with load and 75 s; a
\* failed retry or a first attempt that fails otherwise ends the session with
\* NavigationFailed and without a POST; no main URL sees more than two attempts.
C7_NavigationRetry ==
    /\ \A u \in Urls : navs[u] <= 2
    /\ pc = "Goto1"
        => /\ inflight = [url |-> [base |-> current_url, ref |-> "main"],
                          wait_until |-> "networkidle", timeout |-> NavIdleTimeoutMs]
           /\ navs[current_url] = 1
    /\ pc = "Goto2"
        => /\ inflight = [url |-> [base |-> current_url, ref |-> "main"],
                          wait_until |-> "load", timeout |-> NavLoadTimeoutMs]
           /\ nav.first = "timeout" /\ navs[current_url] = 2
    /\ nav.second # "none" => nav.first = "timeout"
    /\ (nav.first = "error" \/ nav.second \in {"timeout", "error"})
        <=> outcome = "NavigationFailed"
    /\ outcome = "NavigationFailed"
        => pc = "Done" /\ posts = 0 /\ ops = {} /\ resp.kind = "none" /\ page = None

C7_Witness ==
    /\ outcome = "NavigationFailed"
    /\ nav = [first |-> "timeout", second |-> "timeout"]
    /\ navs[current_url] = 2

\* C8: launched with at most 3 s of budget the session does nothing; launched
\* with more than 3 s and at most 6 s it starts the renderer and ends as
\* TimeExhausted without a navigation or a POST.
C8_EntryFloor ==
    /\ (launch_remaining >= 0 /\ launch_remaining <= StartFloor * 1000)
        => pc = "Done" /\ outcome = "NotStarted" /\ ~browser /\ NoNavNoPost
    /\ (launch_remaining > StartFloor * 1000 /\ launch_remaining <= LoopFloor * 1000)
        => /\ pc \in {"Starting", "LoopTop", "Done"}
           /\ pc = "Done" => (outcome = "TimeExhausted" /\ browser)
           /\ NoNavNoPost

C8_Witness ==
    /\ launch_remaining > StartFloor * 1000 /\ launch_remaining <= LoopFloor * 1000
    /\ outcome = "TimeExhausted" /\ browser

\* C9: the answer comes from the first available artifact in the order secret
\* code, audio transcript (trimmed), data file, page text.
C9_ResolutionPriority ==
    answer # None =>
        LET a == The(answer)
            hasSecret == secret_code # None /\ The(secret_code) # <<>>
            hasAudio  == audio_transcript # None /\ The(audio_transcript) # <<>>
            hasFile   == file_bytes # None /\ The(file_bytes) # "empty"
        IN /\ hasSecret => a = [src |-> "secret", val |-> The(secret_code)]
           /\ (~hasSecret /\ hasAudio)
                => /\ a.src = "audio"
                   /\ audio_transcript = Some(<<" ", "o", "k", "\n">>) => a.val = <<"o", "k">>
           /\ (~hasSecret /\ ~hasAudio /\ hasFile)
                => /\ a.src \in {"file", "fallback"}
                   /\ a.src = "file" => a.val[Len(a.val)] = file_ext
                   /\ a.src = "fallback" => (file_ext = "csv" /\ file_bytes = Some("bad"))
           /\ (~hasSecret /\ ~hasAudio /\ ~hasFile) => a.src = "text"

C9_Witness ==
    /\ answer # None /\ The(answer) = [src |-> "audio", val |-> <<"o", "k">>]
    /\ file_bytes = Some("ok") /\ file_ext = "pdf"

\* C10, as claimed: a secondary page that loads without a secret-code pattern
\* leaves the answer to the transcript, the file or the page text.
C10_SecretCodeOnly_AsClaimed ==
    (answer # None /\ scraped # None /\ ~HasSecretPattern(The(scraped)))
        => The(answer).src # "secret"

\* C10, amended: the scrape determines the answer whenever it returns a
\* non-empty string: the secret code when the secondary text holds the
\* pattern ("Secret Code: AB12" gives "AB12"), otherwise the first 300
\* characters of the trimmed secondary text; only a secondary page that could
\* not be read, or whose trimmed text is empty, leaves the answer to the
\* transcript, the file or the page text.
C10_SecretCodeOnly ==
    answer # None =>
        LET a == The(answer) IN
        /\ scraped = Some(SecretPageText)
            => a = [src |-> "secret", val |-> <<"A", "B", "1", "2">>]
        /\ scraped = Some(<<" ", "h", "i", " ">>)
            => a = [src |-> "secret", val |-> <<"h", "i">>]
        /\ scraped = Some(LongText)
            => a.src = "secret" /\ Len(a.val) = SecretSnippetLen
        /\ (scraped # None /\ ~HasSecretPattern(The(scraped)) /\ Strip(The(scraped)) # <<>>)
            => a.src = "secret" /\ a.val = Prefix(Strip(The(scraped)), SecretSnippetLen)
        /\ (scraped = None \/ scraped = Some(<<>>) \/ scraped = Some(<<" ", "\n">>))
            => a.src # "secret"

C10_Witness ==
    /\ answer # None /\ The(answer) = [src |-> "secret", val |-> <<"h", "i">>]
    /\ scraped = Some(<<" ", "h", "i", " ">>)

\* an artifact fetch of this iteration that failed (solver.py:104-109, 118-123)
FileFetchFailed  == "download" \in ops /\ file_bytes = None
AudioFetchFailed == "audio" \in ops /\ audio_transcript = None
IterationOver    == pc = "Done" \/ (pc = "LoopTop" /\ visited # {})

\* C11: a failed file download or a failed audio download / transcription is
\* not fatal: the artifact is absent, the answer does not come from it, and
\* the iteration still makes its submission POST.
C11_ArtifactFailureNonFatal ==
    (IterationOver /\ (FileFetchFailed \/ AudioFetchFailed))
        => /\ posts = 1
           /\ answer # None
           /\ FileFetchFailed => The(answer).src # "file"
           /\ AudioFetchFailed => The(answer).src # "audio"

\* ------------------------------------------------ helpers called on their own
\* A helper is applied once to an argument drawn from a bounded set: the
\* session stays as constructed, arg holds the argument, ret the value returned.
MaxTextLen == 3       \* phrases of a page text given to a helper

restVars == <<current_url, visited, inflight, resp, outcome>>
SeqsUpTo(S, n) == UNION { [1..k -> S] : k \in 0..n }

CallInit(Args) ==
    /\ pc = "Call"
    /\ SessionInit
    /\ arg \in { Some(a) : a \in Args }
    /\ ret = None
    /\ NoThreads

Return(v) ==
    /\ pc = "Call"
    /\ pc' = "Return"
    /\ ret' = Some(v)
    /\ UNCHANGED <<restVars, timeVars, iterVars, histVars, arg, threadVars>>

\* ---------------------------------------------- the action resolver alone
ResolveArgs ==
    [ body : SeqsUpTo({"w", "nl", "countRows", "sumOf", "gt", "gtBad", "chart", "page2"},
                      MaxTextLen),
      pre : {<<>>, <<"page2">>},
      oracle : OracleResults \cup
        { OracleDict({"action", "column", "cutoff"},
                     [NoSpec EXCEPT !.action = Some("sum"), !.column = Some(<<"value">>),
                                    !.cutoff = Some(5)]),
          OracleDict({"action", "cutoff"}, [NoSpec EXCEPT !.action = Some("mean")]) } ]

\* solver.py:126-135 applied to one page text and one oracle result
ApplyResolve ==
    LET a      == The(arg)
        parsed == parse_question_text(a.body, a.pre)
    IN Return([parsed |-> parsed, resolved |-> ResolveStep(parsed, a.oracle)])

SpecResolve == CallInit(ResolveArgs) /\ [][ApplyResolve]_vars

\* C12: the oracle is consulted exactly when the heuristic action is
\* return_text; each field of the merged spec is the oracle's where the oracle
\* result holds it and the heuristic's where it does not; whatever the oracle
\* returns, resolution ends without an exception.
C12_OracleMerge ==
    (pc = "Return" /\ ~The(ret).parsed.raised)
        => LET h == The(ret).parsed.spec
               r == The(ret).resolved
               o == The(arg).oracle
           IN /\ r.consulted = (h.action = Some("return_text"))
              /\ ~r.raised
              /\ r.consulted =>
                    \A f \in SpecFields :
                        r.spec[f] = IF f \in o.has THEN o.d[f] ELSE h[f]
              /\ ~r.consulted => r.spec = h

\* the cutoff phrase the pattern of utils.py:52 finds first is a valid number
HasCutoffPhrase(page_text, pre_text) ==
    LET txt == Content(page_text, pre_text)
        ig  == FirstIdx(txt, CutoffTokens)
    IN ig # 0 /\ txt[ig] = "gt"

\* C13: a page text with a cutoff phrase yields a spec that carries the cutoff,
\* whichever action rule fired (count and <verb> of <column> included).
C13_CutoffIndependent ==
    (pc = "Return" /\ HasCutoffPhrase(The(arg).body, The(arg).pre))
        => /\ ~The(ret).parsed.raised
           /\ The(ret).parsed.spec.cutoff = Some(10)

\* ------------------------------------------------------ tabular aggregates
\* A DataFrame is a sequence of columns [name, cells], all of one length.  A
\* cell is a number or a text that pd.to_numeric cannot read.  A column name
\* is [words, cap, sep]: its lower-case words, whether it has a capital
\* letter, and the character between the words.  Aggregates are exact
\* rationals [num, den] in lowest terms; float rounding is not modelled.
MaxRows == 3          \* rows of a table

Num(v) == [k |-> "num", v |-> v]
Str    == [k |-> "str", v |-> 0]
Cells  == {Num(10), Num(20), Num(30), Str}

Name(words, cap, sep) == [words |-> words, cap |-> cap, sep |-> sep]
NameLower(n)  == [n EXCEPT !.cap = FALSE]                \* n.lower()
NameNorm(n)   == [NameLower(n) EXCEPT !.sep = "_"]       \* n.lower().replace(" ", "_")
\* words.strip().replace(" ", "_") of lower-cased text, utils.py:26, 37
ColName(words) == Name(words, FALSE, "_")

Abs(x) == IF x < 0 THEN -x ELSE x
RECURSIVE Gcd(_, _)
Gcd(a, b) == IF b = 0 THEN a ELSE Gcd(b, a % b)

StrResult(tag)    == [kind |-> "str", tag |-> tag, num |-> 0, den |-> 1]
IntResult(n)      == [kind |-> "int", tag |-> "", num |-> n, den |-> 1]
NullResult        == [kind |-> "null", tag |-> "", num |-> 0, den |-> 1]
FloatResult(n, d) ==
    LET g == Gcd(Abs(n), d)
    IN [kind |-> "float", tag |-> "", num |-> n \div g, den |-> d \div g]

Aggregates == {"sum", "mean", "max", "min", "count", "median"}

RECURSIVE SeqSum(_)
SeqSum(s) == IF s = <<>> THEN 0 ELSE Head(s) + SeqSum(Tail(s))
SeqMax(s) == CHOOSE x \in {s[i] : i \in 1..Len(s)} : \A i \in 1..Len(s) : s[i] <= x
SeqMin(s) == CHOOSE x \in {s[i] : i \in 1..Len(s)} : \A i \in 1..Len(s) : x <= s[i]
SeqMedian(s) ==
    LET t   == SortSeq(s, LAMBDA a, b : a < b)
        n   == Len(t)
        mid == n \div 2
    IN IF n % 2 = 1 THEN FloatResult(t[mid + 1], 1)
       ELSE FloatResult(t[mid] + t[mid + 1], 2)

\* df.empty: no column or no row
DfEmpty(df) == Len(df) = 0 \/ Len(df[1].cells) = 0

\* df.select_dtypes(include="number"): the columns holding numbers only
NumericCols(df) ==
    { i \in 1..Len(df) : \A r \in 1..Len(df[i].cells) : df[i].cells[r].k = "num" }

\* the first column of df whose name is in names, 0 for none
FirstCol(df, names) ==
    IF \E i \in 1..Len(df) : df[i].name \in names
    THEN CHOOSE i \in 1..Len(df) :
            df[i].name \in names /\ \A j \in 1..(i - 1) : df[j].name \notin names
    ELSE 0

\* the names c of df with c.lower() == col.lower() or the same after
\* replacing spaces by underscores, utils.py:160
AlikeNames(df, col) ==
    { df[i].name : i \in { k \in 1..Len(df) :
        \/ NameLower(df[k].name) = NameLower(col)
        \/ NameNorm(df[k].name) = NameNorm(col) } }

\* utils.py:174-177
FallbackNames ==
    << ColName(<<"tickets", "booked">>), ColName(<<"tickets", "sold">>),
       ColName(<<"tickets">>) >>
FallbackCol(df) ==
    LET hit(k) == FirstCol(df, {FallbackNames[k]})
    IN IF hit(1) # 0 THEN hit(1) ELSE IF hit(2) # 0 THEN hit(2) ELSE hit(3)

\* utils.py:152-177: index of the column chosen, 0 for none
SelectColumnSoleAlways(df, col) ==
    LET requested == col # None /\ The(col).words # <<>>
        exact  == IF requested THEN FirstCol(df, col) ELSE 0
        insens == IF requested THEN FirstCol(df, AlikeNames(df, The(col))) ELSE 0
        sole   == IF Cardinality(NumericCols(df)) = 1
                  THEN CHOOSE i \in NumericCols(df) : TRUE ELSE 0
    IN IF exact # 0 THEN exact
       ELSE IF insens # 0 THEN insens
       ELSE IF sole # 0 THEN sole
       ELSE FallbackCol(df)

SelectColumn(df, col) ==
    LET requested == col # None /\ The(col).words # <<>>
        exact  == FirstCol(df, col)
        insens == FirstCol(df, AlikeNames(df, The(col)))
        sole   == IF Cardinality(NumericCols(df)) = 1
                  THEN CHOOSE i \in NumericCols(df) : TRUE ELSE 0
        first  == IF requested
                  THEN (IF exact # 0 THEN exact ELSE insens)
                  ELSE sole
    IN IF first # 0 THEN first ELSE FallbackCol(df)

\* pd.to_numeric(df[colname], errors="coerce").dropna(), utils.py:183
RECURSIVE ToNumeric(_)
ToNumeric(cells) ==
    IF cells = <<>> THEN <<>>
    ELSE IF Head(cells).k = "num" THEN <<Head(cells).v>> \o ToNumeric(Tail(cells))
    ELSE ToNumeric(Tail(cells))

\* series[series > float(cutoff)], utils.py:184-185
RECURSIVE AboveCutoffOrEqual(_, _)
AboveCutoffOrEqual(series, cutoff) ==
    IF cutoff = None \/ series = <<>> THEN series
    ELSE IF Head(series) >= The(cutoff)
    THEN <<Head(series)>> \o AboveCutoffOrEqual(Tail(series), cutoff)
    ELSE AboveCutoffOrEqual(Tail(series), cutoff)

RECURSIVE AboveCutoff(_, _)
AboveCutoff(series, cutoff) ==
    IF cutoff = None \/ series = <<>> THEN series
    ELSE IF Head(series) > The(cutoff)
    THEN <<Head(series)>> \o AboveCutoff(Tail(series), cutoff)
    ELSE AboveCutoff(Tail(series), cutoff)

\* utils.py:186-187
EmptySeriesResultAllNull(action) == NullResult
EmptySeriesResult(action) == IF action = "sum" THEN IntResult(0) ELSE NullResult

\* utils.py:188-199
SeriesAggregate(action, series) ==
    CASE action = "sum"    -> FloatResult(SeqSum(series), 1)
      [] action = "mean"   -> FloatResult(SeqSum(series), Len(series))
      [] action = "max"    -> FloatResult(SeqMax(series), 1)
      [] action = "min"    -> FloatResult(SeqMin(series), 1)
      [] action = "count"  -> IntResult(Len(series))
      [] OTHER             -> SeqMedian(series)

\* utils.py:184-199: the aggregate of the coerced values of a column
TabularAggregate(action, values, cutoff) ==
    LET series == AboveCutoff(values, cutoff)
    IN IF series = <<>> THEN EmptySeriesResult(action)
       ELSE SeriesAggregate(action, series)

\* utils.py:138-208, for a numeric cutoff
_compute_from_dataframe(df, spec) ==
    IF DfEmpty(df) THEN StrResult("empty")
    ELSE LET colname == SelectColumn(df, spec.column)
         IN IF spec.action # None /\ The(spec.action) \in Aggregates
            THEN IF colname = 0 THEN StrResult("no-column")
                 ELSE TabularAggregate(The(spec.action),
                                       ToNumeric(df[colname].cells), spec.cutoff)
            ELSE IF spec.action = Some("chart") THEN StrResult("chart")
            ELSE StrResult("head-10-json")

\* tables given to _compute_from_dataframe: a header names each column and
\* says what it holds: the data cells, texts, or the number 1 in every row
NValue       == ColName(<<"value">>)
NValueCap    == Name(<<"value">>, TRUE, "_")
NLabel       == ColName(<<"label">>)
Col(name, holds) == [name |-> name, holds |-> holds]
Headers ==
    { <<>>,
      << Col(NValue, "data") >>,
      << Col(NValueCap, "data"), Col(NLabel, "text") >>,
      << Col(NLabel, "text"), Col(NValue, "data"), Col(ColName(<<"id">>), "ones") >>,
      << Col(NValueCap, "ones"), Col(NValue, "data") >>,
      << Col(NLabel, "text"), Col(FallbackNames[2], "data") >>,
      << Col(FallbackNames[3], "ones"), Col(FallbackNames[1], "data"), Col(NLabel, "text") >>,
      << Col(Name(<<"ticket", "sales">>, TRUE, " "), "data"), Col(NLabel, "text") >> }

MakeTable(header, data) ==
    [ i \in 1..Len(header) |->
        [ name  |-> header[i].name,
          cells |-> CASE header[i].holds = "data" -> data
                      [] header[i].holds = "text" -> [r \in 1..Len(data) |-> Str]
                      [] OTHER -> [r \in 1..Len(data) |-> Num(1)] ] ]

TableArgs ==
    [ df   : { MakeTable(h, d) : h \in Headers, d \in SeqsUpTo(Cells, MaxRows) },
      spec : [ action : {None} \cup { Some(a) : a \in Aggregates \cup {"chart"} },
               column : { None, Some(ColName(<<>>)), Some(NValue),
                          Some(ColName(<<"ticket", "sales">>)) },
               cutoff : { None, Some(15), Some(20) },
               page   : { None } ] ]

\* utils.py:138-208 applied to one table and one spec
ApplyTable ==
    LET a == The(arg)
    IN Return([ colname |-> IF DfEmpty(a.df) THEN 0 ELSE SelectColumn(a.df, a.spec.column),
                result  |-> _compute_from_dataframe(a.df, a.spec) ])

SpecTable == CallInit(TableArgs) /\ [][ApplyTable]_vars

\* the call computed an aggregate over a selected column
AggregateCall ==
    /\ pc = "Return"
    /\ The(arg).spec.action # None
    /\ The(The(arg).spec.action) \in Aggregates
    /\ The(ret).colname # 0

\* rows of the selected column that hold a number strictly above the cutoff
AdmittedRows ==
    LET cells  == The(arg).df[The(ret).colname].cells
        cutoff == The(arg).spec.cutoff
    IN { r \in 1..Len(cells) :
            /\ cells[r].k = "num"
            /\ cutoff # None => cells[r].v > The(cutoff) }
RowValue(r) == The(arg).df[The(ret).colname].cells[r].v
RECURSIVE RowSum(_)
RowSum(R) ==
    IF R = {} THEN 0
    ELSE LET r == CHOOSE x \in R : TRUE IN RowValue(r) + RowSum(R \ {r})

\* C14: with a cutoff the aggregate ranges over exactly the values strictly
\* greater than the cutoff (a value equal to it is left out): the sum is
\* their sum, the count their number, max and min their extremes, the mean
\* their sum over their number, the median their middle.
C14_StrictCutoff ==
    (AggregateCall /\ AdmittedRows # {})
        => LET res    == The(ret).result
               action == The(The(arg).spec.action)
               n      == Cardinality(AdmittedRows)
               below  == { r \in AdmittedRows : RowValue(r) * res.den < res.num }
               above  == { r \in AdmittedRows : RowValue(r) * res.den > res.num }
           IN /\ action = "sum" => res = FloatResult(RowSum(AdmittedRows), 1)
              /\ action = "count" => res = IntResult(n)
              /\ action = "mean" =>
                    res.kind = "float" /\ res.num * n = res.den * RowSum(AdmittedRows)
              /\ action = "max" =>
                    /\ res.kind = "float" /\ above = {}
                    /\ \E r \in AdmittedRows : res = FloatResult(RowValue(r), 1)
              /\ action = "min" =>
                    /\ res.kind = "float" /\ below = {}
                    /\ \E r \in AdmittedRows : res = FloatResult(RowValue(r), 1)
              /\ action = "median" =>
                    /\ res.kind = "float"
                    /\ 2 * Cardinality(below) <= n /\ 2 * Cardinality(above) <= n

\* [10, 20, 30], sum, cutoff 15: 50
C14_Witness ==
    /\ AggregateCall
    /\ The(arg).df = MakeTable(<< Col(NValue, "data") >>, << Num(10), Num(20), Num(30) >>)
    /\ The(arg).spec.action = Some("sum")
    /\ The(arg).spec.cutoff = Some(15)
    /\ The(ret).result = FloatResult(50, 1)

\* C15: when no value of the selected column is left after coercion and
\* cutoff, sum is the integer 0 and every other aggregate is null.
C15_EmptySeries ==
    (AggregateCall /\ AdmittedRows = {})
        => The(ret).result = IF The(arg).spec.action = Some("sum")
                             THEN IntResult(0) ELSE NullResult

C15_Witness ==
    /\ AggregateCall /\ AdmittedRows = {}
    /\ The(arg).spec.action = Some("count")
    /\ The(arg).spec.cutoff = Some(20)
    /\ The(arg).df = MakeTable(<< Col(NValue, "data") >>, << Num(10), Num(20), Str >>)
    /\ The(ret).result = NullResult

\* the columns each selection rule of utils.py:152-177 accepts, for the call made
Requested == The(arg).spec.column # None /\ The(The(arg).spec.column).words # <<>>
ExactCols ==
    { i \in 1..Len(The(arg).df) :
        Requested /\ The(arg).df[i].name = The(The(arg).spec.column) }
InsensitiveCols ==
    { i \in 1..Len(The(arg).df) :
        Requested /\ NameNorm(The(arg).df[i].name) = NameNorm(The(The(arg).spec.column)) }
SoleNumericCols ==
    IF Cardinality(NumericCols(The(arg).df)) = 1 THEN NumericCols(The(arg).df) ELSE {}
FallbackCols(k) == { i \in 1..Len(The(arg).df) : The(arg).df[i].name = FallbackNames[k] }
Lowest(S) == CHOOSE i \in S : \A j \in S : i <= j

\* the first non-empty rule of a list of rules decides; 0 when all are empty
RECURSIVE FirstRule(_)
FirstRule(rules) ==
    IF rules = <<>> THEN 0
    ELSE IF Head(rules) # {} THEN Lowest(Head(rules))
    ELSE FirstRule(Tail(rules))

\* C16, as claimed: the column is resolved by exact match, then
\* case/underscore-insensitive match, then the sole numeric column, then the
\* fallback names, and "no-column" is returned only when none resolves; a
\* requested column that matches nothing resolves to the sole numeric column.
C16_ColumnOrder_AsClaimed ==
    (pc = "Return" /\ ~DfEmpty(The(arg).df))
        => /\ The(ret).colname =
                FirstRule(<< ExactCols, InsensitiveCols, SoleNumericCols,
                             FallbackCols(1), FallbackCols(2), FallbackCols(3) >>)
           /\ (The(ret).result = StrResult("no-column")) => The(ret).colname = 0

\* C16, amended: the sole numeric column is tried only when no column is
\* requested; a requested column that matches nothing goes straight to the
\* fallback names, and an aggregate without a resolved column is "no-column".
C16_ColumnOrder ==
    (pc = "Return" /\ ~DfEmpty(The(arg).df))
        => /\ The(ret).colname =
                FirstRule(<< ExactCols, InsensitiveCols,
                             IF Requested THEN {} ELSE SoleNumericCols,
                             FallbackCols(1), FallbackCols(2), FallbackCols(3) >>)
           /\ (The(ret).result = StrResult("no-column"))
                = (/\ The(ret).colname = 0
                   /\ The(arg).spec.action # None
                   /\ The(The(arg).spec.action) \in Aggregates)

\* a requested column matches nothing, one numeric column exists, no fallback name
C16_Witness ==
    /\ pc = "Return"
    /\ The(arg).spec.column = Some(ColName(<<"ticket", "sales">>))
    /\ The(arg).spec.action = Some("sum")
    /\ The(arg).df = MakeTable(<< Col(NValueCap, "data"), Col(NLabel, "text") >>,
                               << Num(10), Num(20) >>)
    /\ SoleNumericCols = {1}
    /\ The(ret).result = StrResult("no-column")

\* --------------------------------------------------------- PDF answers
\* A PDF is [readable, pages, raw]: whether pdfplumber opens it, the text of
\* each page, and the bytes decoded as text.  Texts are sequences of
\* characters without a decimal point, so every number found is an integer.
MaxPages == 2         \* pages of a PDF

RawTextLimit    == 2000
PdfTextLimit    == 2000
PdfSnippetLimit == 1000

IsDigitAt(t, i) == i >= 1 /\ i <= Len(t) /\ t[i] \in Digits
DigitVal(c) ==
    CASE c = "0" -> 0 [] c = "1" -> 1 [] c = "2" -> 2 [] c = "3" -> 3 [] c = "4" -> 4
      [] c = "5" -> 5 [] c = "6" -> 6 [] c = "7" -> 7 [] c = "8" -> 8 [] OTHER -> 9

\* (?:[,]\d{3})* from the digit at e: index of the last character matched
RECURSIVE ThousandsEnd(_, _)
ThousandsEnd(t, e) ==
    IF /\ e + 1 <= Len(t) /\ t[e + 1] = ","
       /\ IsDigitAt(t, e + 2) /\ IsDigitAt(t, e + 3) /\ IsDigitAt(t, e + 4)
    THEN ThousandsEnd(t, e + 4) ELSE e

\* [-+]?\d{1,3}(?:[,]\d{3})* tried at i: [from, to] of the digits, to = 0 for no match
NumberAt(t, i) ==
    LET from == IF t[i] \in {"-", "+"} THEN i + 1 ELSE i
        last == IF IsDigitAt(t, from + 2) /\ IsDigitAt(t, from + 1) THEN from + 2
                ELSE IF IsDigitAt(t, from + 1) THEN from + 1 ELSE from
    IN IF IsDigitAt(t, from)
       THEN [from |-> from, to |-> ThousandsEnd(t, last)]
       ELSE [from |-> from, to |-> 0]

\* float(x.replace(",", "")) of the digits t[from..to]
RECURSIVE DigitsValue(_, _, _)
DigitsValue(t, from, to) ==
    IF from > to THEN 0
    ELSE IF t[to] = "," THEN DigitsValue(t, from, to - 1)
    ELSE DigitVal(t[to]) + 10 * DigitsValue(t, from, to - 1)

\* re.findall of utils.py:117 from position i on
RECURSIVE FindNumbers(_, _)
FindNumbers(t, i) ==
    IF i > Len(t) THEN <<>>
    ELSE LET m == NumberAt(t, i)
             v == DigitsValue(t, m.from, m.to)
         IN IF m.to = 0 THEN FindNumbers(t, i + 1)
            ELSE << IF t[i] = "-" THEN -v ELSE v >> \o FindNumbers(t, m.to + 1)

\* "\n".join(...)
RECURSIVE JoinPages(_)
JoinPages(pages) ==
    IF pages = <<>> THEN <<>>
    ELSE IF Len(pages) = 1 THEN pages[1]
    ELSE pages[1] \o <<"\n">> \o JoinPages(Tail(pages))

\* utils.py:102-112: spec always holds the key "page", so spec.get("page", 1)
\* is None unless a page was given, and max(1, None) raises inside the try
PdfText(pdf, spec) ==
    IF ~pdf.readable \/ spec.page = None THEN Prefix(pdf.raw, RawTextLimit)
    ELSE LET page_no == Max(1, The(spec.page))
         IN IF page_no <= Len(pdf.pages) THEN pdf.pages[page_no]
            ELSE JoinPages(pdf.pages)

\* a result of the PDF path: a value, or a text
PdfValue(value) == [value |-> value, text |-> <<>>]
PdfString(text) == [value |-> StrResult("text"), text |-> text]

\* utils.py:120-134
PdfAggregate(action, nums) ==
    CASE action = "sum"   -> FloatResult(SeqSum(nums), 1)
      [] action = "mean"  -> FloatResult(SeqSum(nums), Len(nums))
      [] action = "max"   -> FloatResult(SeqMax(nums), 1)
      [] action = "min"   -> FloatResult(SeqMin(nums), 1)
      [] action = "count" -> IntResult(Len(nums))
      [] OTHER ->
            LET sorted == SortSeq(nums, LAMBDA a, b : a < b)
                n      == Len(sorted)
                mid    == n \div 2              \* zero-based index
            IN IF n % 2 = 1 THEN FloatResult(sorted[mid + 1], 1)
               ELSE FloatResult(sorted[mid] + sorted[mid + 1], 2)

\* utils.py:118-119
PdfNoNumbersAsTabular(action, text) == PdfValue(EmptySeriesResult(action))
PdfNoNumbers(action, text) == PdfString(Prefix(Strip(text), PdfSnippetLimit))

\* utils.py:96-135
compute_answer_from_pdf_bytes(pdf, spec) ==
    LET text == PdfText(pdf, spec)
        nums == FindNumbers(text, 1)
    IN IF spec.action # None /\ The(spec.action) \in Aggregates
       THEN IF nums = <<>> THEN PdfNoNumbers(The(spec.action), text)
            ELSE PdfValue(PdfAggregate(The(spec.action), nums))
       ELSE PdfString(Prefix(Strip(text), PdfTextLimit))

PageTexts ==
    { <<>>,
      <<"a", " ", "1", "0", " ", "2", "0", " ", "3", "0">>,
      <<" ", "1", ",", "2", "0", "0", " ", "\n">>,
      <<"a", "b", "c">>,
      <<"1", "2", "3", "4">>,
      <<"-", "5", " ", "+", "7", ",", "1">> }
PdfArgs ==
    [ pdf  : [ readable : BOOLEAN, pages : SeqsUpTo(PageTexts, MaxPages),
               raw : { <<"%", "P", "D", "F", " ", "1", "7", "\n">>,
                       <<"<", "h", "t", "m", "l", ">">> } ],
      spec : [ action : {None} \cup { Some(a) : a \in Aggregates \cup {"pdf_read"} },
               column : { None },
               cutoff : { None, Some(15) },
               page   : { None, Some(0), Some(1), Some(2), Some(3) } ] ]

\* utils.py:96-135 applied to one PDF and one spec
ApplyPdf ==
    LET a    == The(arg)
        text == PdfText(a.pdf, a.spec)
    IN Return([ text |-> text, nums |-> FindNumbers(text, 1),
                out  |-> compute_answer_from_pdf_bytes(a.pdf, a.spec) ])

SpecPdf == CallInit(PdfArgs) /\ [][ApplyPdf]_vars

\* the page text the PDF holds for a page number: page < 1 is page 1, a page
\* past the last one is every page joined
PageTextFor(pdf, page_no) ==
    IF Max(1, page_no) <= Len(pdf.pages) THEN pdf.pages[Max(1, page_no)]
    ELSE JoinPages(pdf.pages)

\* C17: for a PDF that opens, the text the answer is taken from is the text of
\* the requested page: page 1 when the spec carries no page, page 1 when the
\* page is below 1, all pages joined when the page is past the last one.
C17_PdfPageSelection ==
    (pc = "Return" /\ The(arg).pdf.readable)
        => LET asked == The(arg).spec.page
           IN The(ret).text =
                PageTextFor(The(arg).pdf, IF asked = None THEN 1 ELSE The(asked))

\* C18, as claimed: for every aggregate, cutoff and list of extracted numbers
\* the PDF result is the tabular result over those numbers, the strictly
\* greater cutoff filter and the empty-series results included.
C18_PdfSameAsTabular_AsClaimed ==
    (/\ pc = "Return"
     /\ The(arg).spec.action # None
     /\ The(The(arg).spec.action) \in Aggregates)
        => The(ret).out =
              PdfValue(TabularAggregate(The(The(arg).spec.action), The(ret).nums,
                                        The(arg).spec.cutoff))

\* C18, amended: the PDF path ignores the cutoff; over a non-empty list of
\* extracted numbers its result is the tabular result without cutoff, and
\* when no number is extracted it is the first 1000 characters of the
\* trimmed text, for every action.
C18_PdfSameAsTabular ==
    (/\ pc = "Return"
     /\ The(arg).spec.action # None
     /\ The(The(arg).spec.action) \in Aggregates)
        => IF The(ret).nums # <<>>
           THEN The(ret).out =
                    PdfValue(TabularAggregate(The(The(arg).spec.action),
                                              The(ret).nums, None))
           ELSE /\ The(ret).out.value = StrResult("text")
                /\ The(ret).out.text = Prefix(Strip(The(ret).text), PdfSnippetLimit)

\* page " 10 20 30", sum, cutoff 15: 60 from the PDF, 50 from a table
C18_Witness ==
    /\ pc = "Return"
    /\ The(arg).spec.action = Some("sum")
    /\ The(arg).spec.cutoff = Some(15)
    /\ The(ret).nums = <<10, 20, 30>>
    /\ The(ret).out = PdfValue(FloatResult(60, 1))
    /\ TabularAggregate("sum", The(ret).nums, Some(15)) = FloatResult(50, 1)

\* ------------------------------------------------------- payload capping
\* A long string is a sequence of runs [c, n]: n >= 1 copies of the character
\* c, adjacent runs of different characters.  "a" stands for an ASCII
\* character, "q" for a double quote, "u" for a non-ASCII character, which
\* json.dumps writes as \uXXXX.
MaxRuns == 2          \* runs of an answer string

PayloadLimit    == 900000
AnswerLimit     == 200000
PayloadOverhead == 44      \* {"email": , "secret": , "url": , "answer": }

Run(c, n) == [c |-> c, n |-> n]
JsonCharLen(c) == CASE c = "a" -> 1 [] c = "q" -> 2 [] OTHER -> 6

RECURSIVE StrLen(_)
StrLen(s) == IF s = <<>> THEN 0 ELSE Head(s).n + StrLen(Tail(s))

\* len(json.dumps(s).encode("utf-8")) of a string
RECURSIVE EscapedLen(_)
EscapedLen(s) ==
    IF s = <<>> THEN 0 ELSE Head(s).n * JsonCharLen(Head(s).c) + EscapedLen(Tail(s))
JsonStrBytes(s) == 2 + EscapedLen(s)

\* s[:k]
RECURSIVE Slice(_, _)
Slice(s, k) ==
    IF s = <<>> \/ k <= 0 THEN <<>>
    ELSE IF Head(s).n <= k THEN <<Head(s)>> \o Slice(Tail(s), k - Head(s).n)
    ELSE << Run(Head(s).c, k) >>

\* an answer: a string, or another JSON value of a given serialized size
StrAnswer(s)      == [kind |-> "str", s |-> s, size |-> 0]
OtherAnswer(size) == [kind |-> "other", s |-> <<>>, size |-> size]
AnswerBytes(a) == IF a.kind = "str" THEN JsonStrBytes(a.s) ELSE a.size

\* len(json.dumps(payload).encode("utf-8")), solver.py:310
PayloadBytes(p) ==
    PayloadOverhead + JsonStrBytes(p.email) + JsonStrBytes(p.secret)
        + JsonStrBytes(p.url) + AnswerBytes(p.answer)

enforce_payload_limit_any_size(payload) ==
    IF payload.answer.kind = "str"
    THEN [payload EXCEPT !.answer = StrAnswer(Slice(payload.answer.s, AnswerLimit))]
    ELSE payload

\* solver.py:308-316
enforce_payload_limit(payload) ==
    IF PayloadBytes(payload) > PayloadLimit /\ payload.answer.kind = "str"
    THEN [payload EXCEPT !.answer = StrAnswer(Slice(payload.answer.s, AnswerLimit))]
    ELSE payload

\* payloads: a fixed envelope, and answers whose lengths sit at the two limits
Envelope(ans) ==
    [ email |-> <<Run("a", 20)>>, secret |-> <<Run("a", 4), Run("q", 1)>>,
      url |-> <<Run("a", 30)>>, answer |-> ans ]
EnvelopeBytes == PayloadBytes(Envelope(OtherAnswer(0)))
RunLens ==
    { 1, AnswerLimit - 1, AnswerLimit, AnswerLimit + 1,
      PayloadLimit - EnvelopeBytes - 2, PayloadLimit - EnvelopeBytes - 1,
      PayloadLimit }
PayloadArgs ==
    { Envelope(StrAnswer(s)) :
        s \in { t \in SeqsUpTo({ Run(c, n) : c \in {"a", "q", "u"}, n \in RunLens }, MaxRuns) :
                    \A i \in 1..(Len(t) - 1) : t[i].c # t[i + 1].c } }
    \cup { Envelope(OtherAnswer(n)) : n \in {4, PayloadLimit, PayloadLimit + 1} }

\* solver.py:179-180 applied to one payload
ApplyPayloadLimit == Return(enforce_payload_limit(The(arg)))

SpecPayload == CallInit(PayloadArgs) /\ [][ApplyPayloadLimit]_vars

\* the character at position i of a string
RECURSIVE CharAt(_, _)
CharAt(s, i) == IF i <= Head(s).n THEN Head(s).c ELSE CharAt(Tail(s), i - Head(s).n)

\* positions where a run of s ends
RunEnds(s) == { StrLen(SubSeq(s, 1, k)) : k \in 1..Len(s) }

\* q is the first n characters of s
IsFirstChars(q, s, n) ==
    /\ StrLen(q) = n /\ n <= StrLen(s)
    /\ \A i \in ({1} \cup RunEnds(q) \cup RunEnds(s)
                 \cup { e + 1 : e \in RunEnds(q) \cup RunEnds(s) }) \cap (1..n) :
            CharAt(q, i) = CharAt(s, i)

\* C19: a payload of more than 900,000 serialized bytes whose answer is a
\* string of more than 200,000 characters is sent with exactly the first
\* 200,000 characters of that answer; a non-string answer is sent as it is;
\* a payload of at most 900,000 bytes is sent as it is; email, secret and url
\* are never altered.
C19_PayloadCap ==
    pc = "Return"
        => LET p == The(arg)
               q == The(ret)
           IN /\ q.email = p.email /\ q.secret = p.secret /\ q.url = p.url
              /\ PayloadBytes(p) <= PayloadLimit => q = p
              /\ p.answer.kind # "str" => q = p
              /\ (/\ PayloadBytes(p) > PayloadLimit
                  /\ p.answer.kind = "str"
                  /\ StrLen(p.answer.s) > AnswerLimit)
                    => /\ q.answer.kind = "str"
                       /\ IsFirstChars(q.answer.s, p.answer.s, AnswerLimit)

\* an oversized payload whose answer changes character before the limit
C19_Witness ==
    /\ pc = "Return"
    /\ The(arg).answer = StrAnswer(<< Run("a", AnswerLimit - 1), Run("u", AnswerLimit + 1) >>)
    /\ PayloadBytes(The(arg)) > PayloadLimit
    /\ The(ret).answer = StrAnswer(<< Run("a", AnswerLimit - 1), Run("u", 1) >>)

\* ------------------------------------------------- submit-URL detection
DetectArgs ==
    [ body : SeqsUpTo({"w", "nl", "absSubmit", "absAnswer", "relSubmit", "relOther",
                       "postBackTo", "csvUrl"}, MaxTextLen),
      pre : {<<>>, <<"postBackTo">>},
      current_url : Urls ]

\* solver.py:211-225 applied to one page
ApplyDetect ==
    LET a == The(arg) IN Return(detect_submit_url(a.body, a.pre, a.current_url))

SpecDetect == CallInit(DetectArgs) /\ [][ApplyDetect]_vars

\* the text searched, and what a pattern's leftmost match yields
Searched == Content(The(arg).body, The(arg).pre)
Resolved(i) == Some(urljoin(The(arg).current_url, Searched[i]))
PostBackPath(S) ==
    LET m == FirstPair(Searched, "postBackTo", S)
    IN IF m = 0 THEN 0 ELSE SkipNl(Searched, m + 1)

\* C20, as claimed: the first of the four patterns that matches decides, the
\* fourth being "post back to" followed by any relative path; a page whose
\* only directive is that phrase yields the path resolved against the current
\* URL, and a page matching no pattern yields no submit URL.
C20_SubmitPatterns_AsClaimed ==
    pc = "Return"
        => The(ret) =
              IF FirstIdx(Searched, AbsSubmitTokens) # 0
              THEN Some(AbsUrl(Searched[FirstIdx(Searched, AbsSubmitTokens)]))
              ELSE IF FirstIdx(Searched, AbsEndpointTokens) # 0
              THEN Some(AbsUrl(Searched[FirstIdx(Searched, AbsEndpointTokens)]))
              ELSE IF FirstIdx(Searched, RelSubmitTokens) # 0
              THEN Resolved(FirstIdx(Searched, RelSubmitTokens))
              ELSE IF PostBackPath(RelPathTokens) # 0
              THEN Resolved(PostBackPath(RelPathTokens))
              ELSE None

\* C20, amended: the fourth pattern accepts only a path beginning /submit, so
\* it never decides: the result is the leftmost absolute URL containing
\* /submit, else the leftmost absolute URL containing /submit, /post or
\* /answer, else the leftmost relative path beginning /submit resolved against
\* the current URL, else none; "post back to" followed by any other relative
\* path yields no submit URL.
C20_SubmitPatterns ==
    pc = "Return"
        => /\ The(ret) =
                IF FirstIdx(Searched, AbsSubmitTokens) # 0
                THEN Some(AbsUrl(Searched[FirstIdx(Searched, AbsSubmitTokens)]))
                ELSE IF FirstIdx(Searched, AbsEndpointTokens) # 0
                THEN Some(AbsUrl(Searched[FirstIdx(Searched, AbsEndpointTokens)]))
                ELSE IF FirstIdx(Searched, RelSubmitTokens) # 0
                THEN Resolved(FirstIdx(Searched, RelSubmitTokens))
                ELSE None
           /\ (\A i \in 1..Len(Searched) :
                    Searched[i] \notin AbsEndpointTokens \cup RelSubmitTokens)
                => The(ret) = None

\* the only directive is "post back to /secret-page": no submit URL
C20_Witness ==
    /\ pc = "Return"
    /\ The(arg).body = <<"postBackTo", "relOther">>
    /\ The(arg).pre = <<>>
    /\ PostBackPath(RelPathTokens) # 0
    /\ The(ret) = None

\* ------------------------------------------------------- the HTTP endpoint
\* A request is [is_json, body]: whether its content type announces JSON, and
\* the body: "invalid" (not parseable), "null", "other" (a JSON value that is
\* neither null nor an object) or "object" with the optional values of the
\* keys email, secret and url (None: key absent or null).  QUIZ_SECRET is
\* os.getenv's value: None when unset.
Body(kind, email, secret, url) ==
    [kind |-> kind, email |-> email, secret |-> secret, url |-> url]

\* `not x` is false: x is neither None nor ""
Present(opt) == opt # None /\ The(opt) # ""

Reply(status, launched) == [status |-> status, launched |-> launched]

\* app.py:34-65
api_quiz(req, quiz_secret) ==
    IF ~req.is_json THEN Reply(400, FALSE)
    ELSE IF req.body.kind \in {"invalid", "null"} THEN Reply(400, FALSE)    \* data is None
    ELSE IF req.body.kind # "object" THEN Reply(500, FALSE)   \* data.get raises AttributeError
    ELSE IF ~Present(req.body.email) \/ ~Present(req.body.secret) \/ ~Present(req.body.url)
    THEN Reply(400, FALSE)
    ELSE IF req.body.secret # quiz_secret THEN Reply(403, FALSE)
    ELSE Reply(200, TRUE)

ApiArgs ==
    [ req : [ is_json : BOOLEAN,
              body : { Body(k, None, None, None) : k \in {"invalid", "null", "other"} }
                     \cup { Body("object", e, s, u) :
                              e \in {None, Some(""), Some("e")},
                              s \in {None, Some(""), Some("s1"), Some("s2")},
                              u \in {None, Some(""), Some("u")} } ],
      quiz_secret : {None, Some(""), Some("s1")} ]

\* app.py:34-65 applied to one request
ApplyApi == Return(api_quiz(The(arg).req, The(arg).quiz_secret))

SpecApi == CallInit(ApiArgs) /\ [][ApplyApi]_vars

\* what the claim reads off a request
ValidJson     == The(arg).req.body.kind # "invalid"
FieldsPresent ==
    /\ The(arg).req.body.kind = "object"
    /\ Present(The(arg).req.body.email)
    /\ Present(The(arg).req.body.secret)
    /\ Present(The(arg).req.body.url)
SecretMatches == The(arg).req.body.secret = The(arg).quiz_secret

\* C21: a session is launched exactly when the body is valid JSON, email,
\* secret and url are present and non-empty and the secret equals the
\* configured one; the answer is 400 for invalid JSON or a missing field
\* (before the secret is looked at), 403 for a secret mismatch, 200 otherwise;
\* nothing is launched on 400 or 403.
C21_ApiContract ==
    pc = "Return"
        => /\ The(ret).launched = (ValidJson /\ FieldsPresent /\ SecretMatches)
           /\ The(ret).status =
                IF ~ValidJson \/ ~FieldsPresent THEN 400
                ELSE IF ~SecretMatches THEN 403 ELSE 200
           /\ The(ret).status \in {400, 403} => ~The(ret).launched

\* ------------------------------------------------- sessions side by side
\* Every accepted request runs _solve_quiz_full in a thread of its own
\* (app.py:57-63).  current_url, visited and deadline are locals of that call
\* (solver.py:36, 48-49); the clock and matplotlib.pyplot's figure registry
\* (utils.py:9) belong to the process.  A thread's trace is the sequence of its
\* navigations and POSTs; tops and resps record what it read from outside: the
\* clock and the page at each loop test, and the reply to each POST.
GotoEvent(url) == [op |-> "goto", url |-> url, answer |-> {}]
PostEvent(url, ans) == [op |-> "post", url |-> url, answer |-> ans]

\* utils.py:225 plt.figure(): a new figure becomes the current one
plt_figure(figs) == Append(figs, {})
\* utils.py:226-228 plt.plot, plt.title, plt.tight_layout draw on the current
\* figure, made on demand
plt_plot(figs, s) ==
    IF figs = <<>> THEN << {s} >> ELSE [figs EXCEPT ![Len(figs)] = @ \cup {s}]
\* utils.py:229-232 plt.savefig writes the current figure, made on demand
plt_savefig(figs) == IF figs = <<>> THEN << {} >> ELSE figs
Image(figs) == IF figs = <<>> THEN {} ELSE figs[Len(figs)]
\* utils.py:233 plt.close() closes the current figure
plt_close(figs) == IF figs = <<>> THEN figs ELSE SubSeq(figs, 1, Len(figs) - 1)

\* answers are sets: the series drawn on a chart, or the page's text
TextOnly == {"text"}

ThreadsInit ==
    /\ pc = "Threads"
    /\ SessionInit
    /\ arg = None /\ ret = None
    /\ NoThreads

SessionUnchanged ==
    /\ UNCHANGED <<pc, deadline, launch_remaining, browser>>
    /\ UNCHANGED restVars /\ UNCHANGED iterVars /\ UNCHANGED histVars
    /\ UNCHANGED callVars

\* app.py:56-63 and solver.py:35-49: the request is accepted, its thread starts
Accept(s) ==
    /\ pc = "Threads"
    /\ threads[s].pc = "Idle"
    /\ threads' = [threads EXCEPT ![s] =
          [@ EXCEPT !.pc = "LoopTop", !.start_time = now,
                    !.deadline = now + MAX_TOTAL_SECONDS * 1000,
                    !.current_url = InitialUrl]]
    /\ UNCHANGED <<now, pyplot>>
    /\ SessionUnchanged

\* solver.py:57-61 in thread s, then the page it loads: one that asks for a
\* chart of a CSV file (utils.py:200-202) or one answered from its text
ThreadLoopTop(s) ==
    /\ pc = "Threads"
    /\ threads[s].pc = "LoopTop"
    /\ LET th == threads[s] IN
       IF ~LoopCond(th.current_url, th.deadline, now)
       THEN threads' = [threads EXCEPT ![s] =
               [th EXCEPT !.pc = "Done", !.outcome = "TimeExhausted",
                          !.tops = Append(@, [t |-> now, chart |-> FALSE])]]
       ELSE IF th.current_url \in th.visited
       THEN threads' = [threads EXCEPT ![s] =
               [th EXCEPT !.pc = "Done", !.outcome = "CycleDetected",
                          !.tops = Append(@, [t |-> now, chart |-> FALSE])]]
       ELSE \E chart \in BOOLEAN :
            threads' = [threads EXCEPT ![s] =
               [th EXCEPT !.visited = Visit(@, th.current_url),
                          !.trace = Append(@, GotoEvent(th.current_url)),
                          !.tops = Append(@, [t |-> now, chart |-> chart]),
                          !.chart = chart,
                          !.answer = IF chart THEN {} ELSE TextOnly,
                          !.pc = IF chart THEN "Figure" ELSE "Post"]]
    /\ UNCHANGED <<now, pyplot>>
    /\ SessionUnchanged

\* utils.py:225
ThreadFigure(s) ==
    /\ pc = "Threads"
    /\ threads[s].pc = "Figure"
    /\ pyplot' = plt_figure(pyplot)
    /\ threads' = [threads EXCEPT ![s].pc = "Plot"]
    /\ UNCHANGED now
    /\ SessionUnchanged

\* utils.py:226-228
ThreadPlot(s) ==
    /\ pc = "Threads"
    /\ threads[s].pc = "Plot"
    /\ pyplot' = plt_plot(pyplot, s)
    /\ threads' = [threads EXCEPT ![s].pc = "Savefig"]
    /\ UNCHANGED now
    /\ SessionUnchanged

\* utils.py:229-232
ThreadSavefig(s) ==
    /\ pc = "Threads"
    /\ threads[s].pc = "Savefig"
    /\ pyplot' = plt_savefig(pyplot)
    /\ threads' = [threads EXCEPT ![s].pc = "Close", ![s].answer = Image(pyplot)]
    /\ UNCHANGED now
    /\ SessionUnchanged

\* utils.py:233-234
ThreadClose(s) ==
    /\ pc = "Threads"
    /\ threads[s].pc = "Close"
    /\ pyplot' = plt_close(pyplot)
    /\ threads' = [threads EXCEPT ![s].pc = "Post"]
    /\ UNCHANGED now
    /\ SessionUnchanged

\* replies of the submit endpoint: a transport error, or a reply naming the
\* next URL or none
ThreadReplies ==
    {TransportError} \cup {HttpResp(TRUE, TRUE, TRUE, u) : u \in Urls \cup {EmptyUrl}}

\* solver.py:178-205 in thread s
ThreadPost(s) ==
    /\ pc = "Threads"
    /\ threads[s].pc = "Post"
    /\ \E r \in ThreadReplies :
        LET th == threads[s]
            posted == [th EXCEPT !.trace = Append(@, PostEvent(th.current_url, th.answer)),
                                 !.resps = Append(@, r)]
        IN threads' = [threads EXCEPT ![s] =
              IF AfterPost(r) = "LoopTop"
              THEN [posted EXCEPT !.pc = "LoopTop", !.current_url = NextUrl(r)]
              ELSE [posted EXCEPT !.pc = "Done",
                      !.outcome = IF r.kind = "error" THEN "SubmissionFailed"
                                  ELSE "Completed"]]
    /\ UNCHANGED <<now, pyplot>>
    /\ SessionUnchanged

\* the clock advances while the threads wait on the network
ClockAdvances ==
    /\ pc = "Threads"
    /\ now < MAX_TOTAL_SECONDS * 1000
    /\ now' = now + (MAX_TOTAL_SECONDS * 1000) \div 2
    /\ UNCHANGED threadVars
    /\ SessionUnchanged

ThreadsNext ==
    \/ \E s \in Sessions : Accept(s)
    \/ \E s \in Sessions : ThreadLoopTop(s)
    \/ \E s \in Sessions : ThreadFigure(s)
    \/ \E s \in Sessions : ThreadPlot(s)
    \/ \E s \in Sessions : ThreadSavefig(s)
    \/ \E s \in Sessions : ThreadClose(s)
    \/ \E s \in Sessions : ThreadPost(s)
    \/ ClockAdvances

SpecThreads == ThreadsInit /\ [][ThreadsNext]_vars

\* what session s does when it runs alone from its loop test number i with
\* the clock readings, pages and replies it was given
RECURSIVE AloneFrom(_, _, _, _)
AloneFrom(s, i, url, vis) ==
    LET th == threads[s] IN
    IF i > Len(th.tops) THEN <<>>
    ELSE IF ~LoopCond(url, th.start_time + MAX_TOTAL_SECONDS * 1000, th.tops[i].t)
            \/ url \in vis
    THEN <<>>
    ELSE <<GotoEvent(url)>> \o
         (IF i > Len(th.resps) THEN <<>>
          ELSE <<PostEvent(url, IF th.tops[i].chart THEN {s} ELSE TextOnly)>> \o
               (IF AfterPost(th.resps[i]) = "LoopTop"
                THEN AloneFrom(s, i + 1, NextUrl(th.resps[i]), Visit(vis, url))
                ELSE <<>>))
Alone(s) == AloneFrom(s, 1, InitialUrl, {})

GotoUrls(trace) == { trace[i].url : i \in { j \in DOMAIN trace : trace[j].op = "goto" } }

\* C22: whatever the interleaving, a session's visited set holds exactly the
\* URLs that session navigated to, its deadline is the one fixed at its own
\* start, a cycle is detected only for a URL the session itself visited, and
\* its sequence of navigations and POSTs is the one it produces running alone
\* against the same clock readings, pages and replies.
C22_SessionIsolation ==
    \A s \in Sessions :
        threads[s].pc # "Idle" =>
            /\ threads[s].visited = GotoUrls(threads[s].trace)
            /\ threads[s].deadline = threads[s].start_time + MAX_TOTAL_SECONDS * 1000
            /\ threads[s].outcome = "CycleDetected"
                 => threads[s].current_url \in GotoUrls(threads[s].trace)
            /\ threads[s].trace = Alone(s)

\* ---------------------------------------------------------- termination
\* The session's thread keeps running and every awaited operation returns or
\* times out: a step that is possible is eventually taken.
FairSpec == Spec /\ WF_vars(Next)

\* an iteration begins: solver.py:57-61 passed both tests
IterationBegins ==
    /\ current_url \notin visited
    /\ visited' = visited \cup {current_url}
    /\ time_left(deadline, now) > LoopFloor

\* C23: the deadline never changes, visited only grows, every loop test either
\* ends the session or begins an iteration at a URL not visited before with
\* more than 6 s left, and the session eventually terminates whatever the
\* pages and the submit endpoint's replies are.
C23_Termination ==
    /\ [][ /\ deadline' = deadline
           /\ visited \subseteq visited'
           /\ pc = "LoopTop" => (pc' = "Done" \/ IterationBegins) ]_vars
    /\ <>(pc = "Done")

\* the submit endpoint has sent the session on to a second URL and the
\* session has ended
C23_Witness ==
    /\ pc = "Done"
    /\ Cardinality(visited) > 1
    /\ outcome \in {"TimeExhausted", "CycleDetected", "Completed"}

\* ------------------------------------------------- the budget threshold
\* C24: the loop guard compares the remaining time truncated to whole seconds
\* with 6, so at a loop test with a non-empty URL not visited before the
\* iteration begins exactly when at least 7 s remain; with more than 6 s but
\* less than 7 s left the session ends instead.
C24_BudgetThreshold ==
    [][ (pc = "LoopTop" /\ current_url # EmptyUrl /\ current_url \notin visited)
          => /\ (pc' = "Goto1") = (RemainingMs >= (LoopFloor + 1) * 1000)
             /\ RemainingMs < (LoopFloor + 1) * 1000
                  => (pc' = "Done" /\ outcome' = "TimeExhausted") ]_vars

\* a loop test with between 6 s and 7 s left ended the session
C24_Witness ==
    /\ pc = "Done" /\ outcome = "TimeExhausted"
    /\ current_url # EmptyUrl /\ current_url \notin visited
    /\ RemainingMs > LoopFloor * 1000
    /\ RemainingMs < (LoopFloor + 1) * 1000

====
